---- MODULE Spec2Model ----
(***************************************************************************)
(* godoc-static: the discovery / fetch / transform / emit pipeline.        *)
(*                                                                         *)
(* The repository holds three generations of the program:                  *)
(*   "part_000"  src/unnamed/part_000 (main) with src/page.go              *)
(*   "main"      src/main.go:411-880 (run) with src/unnamed/part_002       *)
(*   "part_001"  src/unnamed/part_001 (run, startGodoc) with part_002      *)
(* The variable variant says which one a behaviour runs.                   *)
(*                                                                         *)
(* Go strings are modelled as sequences of one-character strings, so that  *)
(* slicing, prefix tests and searches are computed as the code computes    *)
(* them.                                                                   *)
(***************************************************************************)
EXTENDS Integers, Sequences, FiniteSets, TLC

VARIABLES
    variant,      \* which generation of the program runs
    linkIndex,    \* flag -link-index
    basePath,     \* flag -base-path
    href,         \* HrefSpec: the href of the anchor under rewrite
    hrefOut,      \* HrefSpec: the anchor's href after rule 4
    hrefDone,     \* HrefSpec: the anchor has been visited
    hrefLayout,   \* HrefSpec: the anchor's href after the source pages' layout pass
    layoutDone,   \* HrefSpec: the layout pass has visited the anchor
    pageIn,       \* PageSpec: the document as parsed from the response
    page,         \* PageSpec: the document under transformation
    pageOnce,     \* PageSpec: the document after the first pass of rules 1-3
    headNavRuns,  \* PageSpec: how often rules 1-3 have run on page
    updated,      \* PageSpec: updatePage has run on page
    args,         \* flag.Args(): the identifiers the user supplied
    siteDestination, \* flag -destination (-out), empty when not set
    excludePackages, \* flag -exclude, split on " "
    pc,           \* where the caller (main goroutine) stands
    runErr,       \* "none" while running, "nil" or the error run ends with
    exited,       \* the process has exited
    exitCode,     \* the exit status, once exited
    godoc,        \* the backend process: "nil", "running", "killed", "unstarted" or "orphaned"
    godocStartDir, \* part_001: the root the backend was last started for
    timer,        \* time.After(15s): "unset", "armed" or "fired"
    pkgs,         \* the full set, sorted
    filterPkgs,   \* the filter set
    pkgPaths,     \* part_001: the root recorded for each package
    wpc,          \* where the phase-1 worker goroutine stands
    wi,           \* the index of the package the worker is at
    doneVal,      \* the value the worker sends on done
    inflight,     \* who has an HTTP GET in flight
    phase1End,    \* how the caller's select ended: "none", "clean", "error", "timeout"
    ci,           \* the index of the package phase 2 is at
    orphans,      \* backend processes that were started, are no longer held in godoc, and live
    scanLeft,     \* the "scan is not yet complete" answers the backend may still give
    indexRows,    \* the rows writeIndex has emitted
    indexDone,    \* IndexSpec: writeIndex has run
    sourceFiles,  \* phase 2: the source files still to copy for package ci
    listed,       \* phase 2: what the listing of each package so far gave
    written       \* the files written, in the order of the writes, with their content

hrefVars == <<href, hrefOut, hrefDone, hrefLayout, layoutDone>>
pageVars == <<pageIn, page, pageOnce, headNavRuns, updated>>
flagVars == <<variant, linkIndex, basePath>>
runVars  == <<args, siteDestination, excludePackages, pc, runErr, exited, exitCode, godoc,
              godocStartDir, timer, pkgs, filterPkgs, pkgPaths, wpc, wi, doneVal,
              inflight, phase1End, ci, sourceFiles, listed, written,
              indexRows, indexDone, scanLeft, orphans>>
vars == <<flagVars, hrefVars, pageVars, runVars>>

HrefIdle ==
    /\ href = <<>> /\ hrefOut = <<>> /\ hrefDone = FALSE
    /\ hrefLayout = <<>> /\ layoutDone = FALSE
RunIdle ==
    /\ args = <<>> /\ siteDestination = <<>> /\ excludePackages = <<>>
    /\ pc = "idle" /\ runErr = "none" /\ exited = FALSE /\ exitCode = 0
    /\ godoc = "nil" /\ godocStartDir = <<>> /\ timer = "unset"
    /\ pkgs = <<>> /\ filterPkgs = <<>> /\ pkgPaths = <<>>
    /\ wpc = "none" /\ wi = 0 /\ doneVal = "none" /\ inflight = {}
    /\ phase1End = "none" /\ ci = 0 /\ sourceFiles = <<>> /\ listed = <<>>
    /\ written = <<>>
    /\ indexRows = <<>> /\ indexDone = FALSE /\ scanLeft = 0 /\ orphans = 0
PageIdle == pageIn = <<>> /\ page = <<>> /\ pageOnce = <<>> /\ headNavRuns = 0 /\ updated = FALSE

Variants == {"part_000", "main", "part_001"}

(***************************************************************************)
(* String literals.                                                        *)
(***************************************************************************)
sSlash     == <<"/">>
sPkg       == <<"/", "p", "k", "g", "/">>
sSrc       == <<"/", "s", "r", "c", "/">>
sHtml      == <<".", "h", "t", "m", "l">>
sIndexHtml == <<"/", "i", "n", "d", "e", "x", ".", "h", "t", "m", "l">>
sIndex     == <<"i", "n", "d", "e", "x", ".", "h", "t", "m", "l">>
sLibStyle  == <<"l", "i", "b", "/", "s", "t", "y", "l", "e", ".", "c", "s", "s">>
sLibJs     == <<"l", "i", "b", "/", "g", "o", "d", "o", "c", "-", "s", "t", "a", "t", "i", "c", ".", "j", "s">>
sPackages  == <<"P", "a", "c", "k", "a", "g", "e", "s">>
sImportQ   == <<"i", "m", "p", "o", "r", "t", " ", "\"">>
sQuote     == <<"\"">>
sHttps     == <<"h", "t", "t", "p", "s", ":", "/", "/">>
sGitlab    == <<"g", "i", "t", "l", "a", "b", ".", "c", "o", "m", "/">>
sGithub    == <<"g", "i", "t", "h", "u", "b", ".", "c", "o", "m", "/">>
sSrHt      == <<"g", "i", "t", ".", "s", "r", ".", "h", "t", "/">>
sBitbucket == <<"b", "i", "t", "b", "u", "c", "k", "e", "t", ".", "o", "r", "g", "/">>
sGitlabTree == <<"/", "-", "/", "t", "r", "e", "e", "/", "m", "a", "s", "t", "e", "r">>
sTree      == <<"/", "t", "r", "e", "e", "/", "m", "a", "s", "t", "e", "r">>
sSrcMaster == <<"/", "s", "r", "c", "/", "m", "a", "s", "t", "e", "r">>

(***************************************************************************)
(* The Go library calls the code makes, computed on character sequences.   *)
(***************************************************************************)
\* strings.HasPrefix
HasPrefix(s, p) == Len(s) >= Len(p) /\ SubSeq(s, 1, Len(p)) = p

\* strings.HasSuffix
HasSuffix(s, p) == Len(s) >= Len(p) /\ SubSeq(s, Len(s) - Len(p) + 1, Len(s)) = p

\* strings.ContainsRune
ContainsRune(s, c) == \E i \in 1..Len(s) : s[i] = c

\* strings.IndexRune: the 0-based index of the first c, or -1
IndexRune(s, c) ==
    IF ContainsRune(s, c)
    THEN (CHOOSE i \in 1..Len(s) : s[i] = c /\ \A j \in 1..(i - 1) : s[j] # c) - 1
    ELSE -1

\* s[lo:hi] and s[lo:] with Go's 0-based bounds
Slice(s, lo, hi) == SubSeq(s, lo + 1, hi)
SliceFrom(s, lo) == SubSeq(s, lo + 1, Len(s))

\* path.Base: trailing slashes stripped, then the text after the last slash;
\* "." for the empty path and "/" for a path of slashes only
RECURSIVE StripTrailingSlashes(_)
StripTrailingSlashes(s) ==
    IF Len(s) > 0 /\ s[Len(s)] = "/"
    THEN StripTrailingSlashes(SubSeq(s, 1, Len(s) - 1))
    ELSE s

LastSlash(s) ==
    IF ContainsRune(s, "/")
    THEN (CHOOSE i \in 1..Len(s) : s[i] = "/" /\ \A j \in (i + 1)..Len(s) : s[j] # "/") - 1
    ELSE -1

PathBase(p) ==
    IF p = <<>> THEN <<".">>
    ELSE LET t == StripTrailingSlashes(p)
             u == IF LastSlash(t) >= 0 THEN SliceFrom(t, LastSlash(t) + 1) ELSE t
         IN  IF u = <<>> THEN <<"/">> ELSE u

(***************************************************************************)
(* updatePage, rule 4: the rewrite of one anchor's href.                   *)
(***************************************************************************)
\* the insertion of a suffix before the query, else before the fragment,
\* else at the end
InsertSuffix(h, suffix) ==
    LET queryPos == IndexRune(h, "?")
        hashPos  == IndexRune(h, "#")
    IN  IF queryPos >= 0
        THEN Slice(h, 0, queryPos) \o suffix \o SliceFrom(h, queryPos)
        ELSE IF hashPos >= 0
             THEN Slice(h, 0, hashPos) \o suffix \o SliceFrom(h, hashPos)
             ELSE h \o suffix

StripPkgKept(h) == h

StripPkg(h) == IF HasPrefix(h, sPkg) THEN SliceFrom(h, 4) ELSE h

RewriteHref(h, base) ==
    IF HasPrefix(h, sSrc) \/ HasPrefix(h, sPkg)
    THEN LET h1 == IF ContainsRune(PathBase(h), ".")
                   THEN InsertSuffix(h, sHtml)
                   ELSE IF linkIndex THEN InsertSuffix(h, sIndexHtml) ELSE h
         IN  base \o SliceFrom(StripPkg(h1), 1)
    ELSE h

\* the source pages' pass over the anchors of the layout region: ".html"
\* is appended unless the href ends in ".", "/" or ".html"
LayoutHref(h) ==
    IF ~HasSuffix(h, <<".">>) /\ ~HasSuffix(h, sSlash) /\ ~HasSuffix(h, sHtml)
    THEN h \o sHtml
    ELSE h

(***************************************************************************)
(* The HTML document as goquery sees it: a tree of element nodes.  A node  *)
(* has a tag, an id, a set of classes, the attributes the code reads or    *)
(* writes (rel, href, src), a text (for "#text" nodes) and its children.   *)
(* A document is the one-element sequence holding its <html> root.         *)
(***************************************************************************)
El(tag, id, cls, kids) ==
    [tag |-> tag, id |-> id, cls |-> cls, rel |-> "", href |-> <<>>,
     src |-> <<>>, text |-> <<>>, kids |-> kids]

TextNode(t)     == [El("#text", "", {}, <<>>) EXCEPT !.text = t]
Anchor(h, kids) == [El("a", "", {}, kids) EXCEPT !.href = h]
LinkEl(rel, h)  == [El("link", "", {}, <<>>) EXCEPT !.rel = rel, !.href = h]
ScriptEl(src)   == [El("script", "", {}, <<>>) EXCEPT !.src = src]

\* goquery selectors: by tag, by #id, by .class, by tag.class
ByTag(t)         == [by |-> "tag", t |-> t, v |-> ""]
ById(v)          == [by |-> "id", t |-> "", v |-> v]
ByClass(v)       == [by |-> "class", t |-> "", v |-> v]
ByTagClass(t, v) == [by |-> "tagclass", t |-> t, v |-> v]

Matches(n, sel) ==
    CASE sel.by = "tag"      -> n.tag = sel.t
      [] sel.by = "id"       -> n.id = sel.v
      [] sel.by = "class"    -> sel.v \in n.cls
      [] sel.by = "tagclass" -> n.tag = sel.t /\ sel.v \in n.cls

\* Selection.Find: the matching nodes of ns and below, in document order
RECURSIVE Find(_, _)
Find(ns, sel) ==
    IF ns = <<>> THEN <<>>
    ELSE LET h == Head(ns)
         IN  (IF Matches(h, sel) THEN <<h>> ELSE <<>>)
                \o Find(h.kids, sel) \o Find(Tail(ns), sel)

\* Find(sel).Remove(): every matching node leaves the tree with its subtree
RECURSIVE RemoveAll(_, _)
RemoveAll(ns, sel) ==
    IF ns = <<>> THEN <<>>
    ELSE LET h == Head(ns)
         IN  (IF Matches(h, sel) THEN <<>>
              ELSE <<[h EXCEPT !.kids = RemoveAll(h.kids, sel)]>>)
                \o RemoveAll(Tail(ns), sel)

\* Find(sel).AppendNodes(n): n becomes the last child of every matching node
RECURSIVE AppendNodes(_, _, _)
AppendNodes(ns, sel, n) ==
    IF ns = <<>> THEN <<>>
    ELSE LET h == Head(ns)
         IN  <<[h EXCEPT !.kids = AppendNodes(h.kids, sel, n)
                                    \o (IF Matches(h, sel) THEN <<n>> ELSE <<>>)]>>
                \o AppendNodes(Tail(ns), sel, n)

\* Find(sel).First().SetHtml(kids): the first match in document order gets
\* new children
RECURSIVE SetHtmlFirst(_, _, _)
SetHtmlFirst(ns, sel, kids) ==
    IF ns = <<>> THEN <<>>
    ELSE LET h == Head(ns)
         IN  IF Matches(h, sel) THEN <<[h EXCEPT !.kids = kids]>> \o Tail(ns)
             ELSE IF Find(h.kids, sel) # <<>>
                  THEN <<[h EXCEPT !.kids = SetHtmlFirst(h.kids, sel, kids)]>> \o Tail(ns)
                  ELSE <<h>> \o SetHtmlFirst(Tail(ns), sel, kids)

\* Find(sel).Last().Remove(): the last match in document order leaves
RECURSIVE RemoveLast(_, _)
RemoveLast(ns, sel) ==
    IF ns = <<>> THEN <<>>
    ELSE LET n    == Len(ns)
             l    == ns[n]
             init == SubSeq(ns, 1, n - 1)
         IN  IF Find(l.kids, sel) # <<>>
             THEN init \o <<[l EXCEPT !.kids = RemoveLast(l.kids, sel)]>>
             ELSE IF Matches(l, sel) THEN init
                  ELSE RemoveLast(init, sel) \o <<l>>

\* Selection.Text: the text of the nodes and their descendants
RECURSIVE TextOf(_)
TextOf(ns) ==
    IF ns = <<>> THEN <<>>
    ELSE Head(ns).text \o TextOf(Head(ns).kids) \o TextOf(Tail(ns))

(***************************************************************************)
(* topBar and updatePage.                                                  *)
(***************************************************************************)
PageFile == IF variant = "part_000" THEN "page.go" ELSE "part_002"

SiteName == <<"D">>

TopBar(base, siteName) ==
    LET index == IF linkIndex THEN sIndex ELSE <<>>
    IN  << El("div", "", {"container"},
              << El("div", "heading-wide", {"top-heading"},
                    <<Anchor(base \o index, <<TextNode(siteName)>>)>>),
                 El("div", "heading-narrow", {"top-heading"},
                    <<Anchor(base \o index, <<TextNode(siteName)>>)>>),
                 El("div", "menu", {},
                    <<Anchor(base \o index, <<TextNode(sPackages)>>)>>) >>) >>

StyleLinkNoBase(base) == LinkEl("stylesheet", sLibStyle)

StyleLink(base) == LinkEl("stylesheet", base \o sLibStyle)

RemoveAssetsScriptsOnly(doc) == RemoveAll(doc, ByTag("script"))

\* rule 1: doc.Find("link").Remove(); doc.Find("script").Remove()
RemoveAssets(doc) == RemoveAll(RemoveAll(doc, ByTag("link")), ByTag("script"))

\* rule 2: doc.Find("head").AppendNodes(linkTag)
InsertStyleLink(doc, base) == AppendNodes(doc, ByTag("head"), StyleLink(base))

\* rule 3: doc.Find("#topbar").First().SetHtml(topBar(basePath, siteName))
ReplaceTopBar(doc, base, siteName) ==
    SetHtmlFirst(doc, ById("topbar"), TopBar(base, siteName))

\* rules 1 to 3 in the order of updatePage
HeadNavRules(doc, base, siteName) ==
    ReplaceTopBar(InsertStyleLink(RemoveAssets(doc), base), base, siteName)

\* the 0-based index of the third "/" of s, 0 when there is none
ThirdSlash(s) ==
    LET slashes == {i \in 1..Len(s) : s[i] = "/"}
        third   == {i \in slashes : Cardinality({j \in slashes : j < i}) = 2}
    IN  IF third = {} THEN 0 ELSE (CHOOSE i \in third : TRUE) - 1

BrowseImportPath(importPath) ==
    LET browseInsert ==
            IF HasPrefix(importPath, sGitlab) THEN sGitlabTree
            ELSE IF HasPrefix(importPath, sGithub) \/ HasPrefix(importPath, sSrHt)
                 THEN sTree
                 ELSE IF HasPrefix(importPath, sBitbucket) THEN sSrcMaster ELSE <<>>
        insertPos == ThirdSlash(importPath)
    IN  IF browseInsert # <<>> /\ insertPos > 0
        THEN Slice(importPath, 0, insertPos) \o browseInsert \o SliceFrom(importPath, insertPos)
        ELSE importPath

\* part_002 only: the import path shown under #short-nav becomes a link
LinkImportPath(doc) ==
    LET nav  == Find(doc, ById("short-nav"))
        code == IF nav = <<>> THEN <<>> ELSE Find(nav[1].kids, ByTag("code"))
        text == IF code = <<>> THEN <<>> ELSE TextOf(<<code[1]>>)
    IN  IF /\ code # <<>>
           /\ ContainsRune(text, ".")
           /\ HasPrefix(text, sImportQ)
           /\ HasSuffix(text, sQuote)
        THEN LET importPath == Slice(text, 8, Len(text) - 1)
                 shown == << TextNode(sImportQ),
                             Anchor(sHttps \o BrowseImportPath(importPath),
                                    <<TextNode(importPath)>>),
                             TextNode(sQuote) >>
             IN  SetHtmlFirst(doc, ById("short-nav"),
                              SetHtmlFirst(nav[1].kids, ByTag("code"), shown))
        ELSE doc

\* rule 4: doc.Find("a").Each(...)
RECURSIVE RewriteAnchors(_, _)
RewriteAnchors(ns, base) ==
    IF ns = <<>> THEN <<>>
    ELSE LET h == Head(ns)
         IN  <<[h EXCEPT !.href = IF h.tag = "a" THEN RewriteHref(h.href, base) ELSE h.href,
                         !.kids = RewriteAnchors(h.kids, base)]>>
                \o RewriteAnchors(Tail(ns), base)

\* rule 5, one div.toggle: the summary is the inner HTML of the first
\* span.text of the last nested div.collapsed (empty when there is none)
ToggleSummary(n) ==
    LET collapsed == Find(n.kids, ByTagClass("div", "collapsed"))
        texts     == IF collapsed = <<>> THEN <<>>
                     ELSE Find(collapsed[Len(collapsed)].kids, ByTagClass("span", "text"))
    IN  IF texts = <<>> THEN <<>> ELSE texts[1].kids

ToggleRest(n) ==
    RemoveAll(RemoveAll(n.kids, ByTagClass("div", "collapsed")), ByClass("toggleButton"))

\* rule 5: doc.Find("div").Each(...)
RECURSIVE RewriteToggles(_)
RewriteToggles(ns) ==
    IF ns = <<>> THEN <<>>
    ELSE LET h == Head(ns)
         IN  (IF h.tag = "div" /\ "toggle" \in h.cls
              THEN <<[h EXCEPT !.tag = "details",
                               !.cls = h.cls \ {"toggle"},
                               !.kids = <<El("summary", "", {}, ToggleSummary(h))>>
                                          \o RewriteToggles(ToggleRest(h))]>>
              ELSE <<[h EXCEPT !.kids = RewriteToggles(h.kids)]>>)
                \o RewriteToggles(Tail(ns))

\* page.go only: doc.Find("body").AppendNodes(scriptTag)
AppendStaticScript(doc, base) == AppendNodes(doc, ByTag("body"), ScriptEl(base \o sLibJs))

\* doc.Find("#footer").Last().Remove()
RemoveFooter(doc) == RemoveLast(doc, ById("footer"))

UpdatePage(doc, base, siteName) ==
    LET d3 == HeadNavRules(doc, base, siteName)
        d4 == IF PageFile = "part_002" THEN LinkImportPath(d3) ELSE d3
        d5 == RewriteAnchors(d4, base)
        d6 == RewriteToggles(d5)
        d7 == IF PageFile = "page.go" THEN AppendStaticScript(d6, base) ELSE d6
    IN  RemoveFooter(d7)

(***************************************************************************)
(* HrefSpec: rule 4 applied to one anchor, for every href of a bounded     *)
(* family: a prefix, a path of at most MaxPathLen characters and a         *)
(* query/fragment tail.                                                    *)
(***************************************************************************)
MaxPathLen == 4

PathAlphabet == {"a", ".", "/"}

SeqsUpTo(S, n) == UNION {[1..k -> S] : k \in 0..n}

HrefPrefixes == {<<>>, sPkg, sSrc}

HrefTails ==
    { <<>>,
      <<"?", "a">>, <<"#", "a">>,
      <<"#", "a", ".", "a">>, <<"?", "a", ".", "a">>,
      <<"?", "a", "/", "a">>,
      <<"?", "a", "#", "a">>, <<"#", "a", "?", "a">> }

Hrefs ==
    { p \o b \o t : p \in HrefPrefixes, b \in SeqsUpTo(PathAlphabet, MaxPathLen),
                    t \in HrefTails }

BasePaths == { <<"/">>, <<".", ".", "/">> }

HrefInit ==
    /\ variant \in Variants
    /\ linkIndex \in BOOLEAN
    /\ basePath \in BasePaths
    /\ href \in Hrefs
    /\ hrefOut = <<>>
    /\ hrefDone = FALSE
    /\ hrefLayout = <<>>
    /\ layoutDone = FALSE
    /\ PageIdle
    /\ RunIdle

\* doc.Find("a").Each(...): the visit of the anchor
RewriteAnchor ==
    /\ ~hrefDone
    /\ hrefOut' = RewriteHref(href, basePath)
    /\ hrefDone' = TRUE
    /\ UNCHANGED <<flagVars, href, hrefLayout, layoutDone, pageVars, runVars>>

\* doc.Find(".layout").First().Find("a").Each(...): the visit of the same
\* anchor by the pass phase 2 runs after updatePage (main.go, part_001)
LayoutAnchor ==
    /\ hrefDone /\ ~layoutDone
    /\ variant # "part_000"
    /\ hrefLayout' = LayoutHref(hrefOut)
    /\ layoutDone' = TRUE
    /\ UNCHANGED <<flagVars, href, hrefOut, hrefDone, pageVars, runVars>>

HrefNext == RewriteAnchor \/ LayoutAnchor

HrefSpec == HrefInit /\ [][HrefNext]_vars

(***************************************************************************)
(* PageSpec: updatePage, and rules 1-3 alone, applied to every document    *)
(* of a bounded family: one <head> (html.Parse builds exactly one), and a  *)
(* <body> of at most MaxBody elements of a palette.                        *)
(***************************************************************************)
MaxBody == 2

sOldStyle  == <<"/", "l", "i", "b", "/", "g", "o", "d", "o", "c", "/", "s", "t", "y", "l", "e", ".", "c", "s", "s">>
sOldScript == <<"/", "l", "i", "b", "/", "g", "o", "d", "o", "c", "/", "g", "o", "d", "o", "c", "s", ".", "j", "s">>
sImportA   == <<"i", "m", "p", "o", "r", "t", " ", "\"", "g", "i", "t", "h", "u", "b", ".", "c", "o", "m", "/", "a", "/", "a", "/", "a", "\"">>
sExample   == <<"E", "x">>

TitleEl == El("title", "", {}, <<TextNode(<<"t">>)>>)

HeadChoices ==
    { <<TitleEl, LinkEl("stylesheet", sOldStyle), ScriptEl(sOldScript)>>,
      <<LinkEl("stylesheet", sOldStyle), TitleEl>>,
      <<TitleEl, LinkEl("search", sOldStyle)>>,
      <<TitleEl>> }

ToggleEl ==
    El("div", "example", {"toggle"},
       << El("div", "", {"collapsed"},
             <<El("p", "", {"toggleButton"},
                  <<El("span", "", {"text"}, <<TextNode(sExample)>>)>>)>>),
          El("div", "", {"expanded"},
             << El("p", "", {"toggleButton"},
                   <<El("span", "", {"text"}, <<TextNode(sExample)>>)>>),
                Anchor(sSrc \o <<"a", "/", "a", ".", "a">>, <<>>) >>) >>)

BodyPalette ==
    { El("div", "topbar", {"wide"},
         <<El("div", "", {"container"}, <<Anchor(<<"/">>, <<>>), ScriptEl(<<>>)>>)>>),
      LinkEl("stylesheet", sOldStyle),
      El("div", "page", {"layout"},
         <<Anchor(sPkg \o <<"a", "/">>, <<>>), ScriptEl(sOldScript),
           El("div", "footer", {}, <<>>)>>),
      ToggleEl,
      El("div", "", {"toggle"}, <<Anchor(sPkg \o <<"a", ".", "a">>, <<>>)>>),
      El("div", "footer", {}, <<TextNode(<<"f">>), ScriptEl(sOldScript)>>),
      El("div", "short-nav", {},
         <<El("dl", "", {}, <<El("code", "", {}, <<TextNode(sImportA)>>)>>)>>) }

Doc(headKids, bodyKids) ==
    << El("html", "", {},
          <<El("head", "", {}, headKids), El("body", "", {}, bodyKids)>>) >>

Docs == { Doc(h, b) : h \in HeadChoices, b \in SeqsUpTo(BodyPalette, MaxBody) }

PageInit ==
    /\ variant \in Variants
    /\ linkIndex \in BOOLEAN
    /\ basePath \in BasePaths
    /\ pageIn \in Docs
    /\ page = pageIn
    /\ pageOnce = <<>>
    /\ headNavRuns = 0
    /\ updated = FALSE
    /\ HrefIdle
    /\ RunIdle

\* rules 1-3 run on the document (once more)
ApplyHeadNav ==
    /\ ~updated
    /\ headNavRuns < 2
    /\ page' = HeadNavRules(page, basePath, SiteName)
    /\ pageOnce' = IF headNavRuns = 0 THEN page' ELSE pageOnce
    /\ headNavRuns' = headNavRuns + 1
    /\ UNCHANGED <<flagVars, hrefVars, pageIn, updated, runVars>>

\* updatePage(doc, basePath, siteName)
ApplyUpdatePage ==
    /\ ~updated
    /\ headNavRuns = 0
    /\ page' = UpdatePage(page, basePath, SiteName)
    /\ updated' = TRUE
    /\ UNCHANGED <<flagVars, hrefVars, pageIn, pageOnce, headNavRuns, runVars>>

PageNext == ApplyHeadNav \/ ApplyUpdatePage

PageSpec == PageInit /\ [][PageNext]_vars

(***************************************************************************)
(* The run.  Identifiers, file names and paths are character sequences;    *)
(* a path is given relative to the destination directory.                  *)
(***************************************************************************)
idA       == <<"a">>
idAB      == <<"a", "/", "b">>
idB       == <<"B">>
sScanIncomplete == <<"S", "c", "a", "n", " ", "i", "s", " ", "n", "o", "t", " ", "y", "e", "t", " ", "c", "o", "m", "p", "l", "e", "t", "e", ".">>
sBlank    == <<" ">>
sSlashB   == <<"/", "b">>
fGo       == <<"f", ".", "g", "o">>
gGo       == <<"g", ".", "g", "o">>
sSrcSlash == <<"s", "r", "c", "/">>
sLib      == <<"l", "i", "b">>
sStyleCss == <<"s", "t", "y", "l", "e", ".", "c", "s", "s">>
sUp       == <<".", ".", "/">>
sBackslash == <<"\\">>
sTestdata == <<"t", "e", "s", "t", "d", "a", "t", "a">>
sInternal == <<"i", "n", "t", "e", "r", "n", "a", "l">>
sCmd      == <<"c", "m", "d">>
sTitleSep == <<" ", "-", " ">>
sPkgUrl   == <<"/", "p", "k", "g", "/">>
sSrcUrl   == <<"/", "s", "r", "c", "/">>
sStyleUrl == <<"/", "l", "i", "b", "/", "g", "o", "d", "o", "c", "/", "s", "t", "y", "l", "e", ".", "c", "s", "s">>
sGopathSrc == <<"/", "g", "/">>
sModuleDir == <<"/", "m">>

\* the elements of a sequence
Range(s) == {s[i] : i \in 1..Len(s)}

\* strings.TrimSpace, for the white space the model has (the blank)
RECURSIVE TrimSpace(_)
TrimSpace(s) ==
    IF s = <<>> THEN s
    ELSE IF Head(s) = " " THEN TrimSpace(Tail(s))
    ELSE IF s[Len(s)] = " " THEN TrimSpace(SubSeq(s, 1, Len(s) - 1))
    ELSE s

\* strings.Contains
Contains(s, sub) ==
    \E i \in 0..(Len(s) - Len(sub)) : SubSeq(s, i + 1, i + Len(sub)) = sub

\* strings.Split with a one-character separator
RECURSIVE Split(_, _)
Split(s, c) ==
    IF ~ContainsRune(s, c) THEN <<s>>
    ELSE <<Slice(s, 0, IndexRune(s, c))>> \o Split(SliceFrom(s, IndexRune(s, c) + 1), c)

\* strings.Join
RECURSIVE Join(_, _)
Join(ss, sep) ==
    IF ss = <<>> THEN <<>>
    ELSE IF Len(ss) = 1 THEN ss[1]
    ELSE ss[1] \o sep \o Join(Tail(ss), sep)

\* strings.Count with a one-character pattern
Count(s, c) == Cardinality({i \in 1..Len(s) : s[i] = c})

\* strings.ToLower
LowerRune(c) ==
    CASE c = "A" -> "a"
      [] c = "B" -> "b"
      [] OTHER   -> c
ToLower(s) == [i \in 1..Len(s) |-> LowerRune(s[i])]

\* the byte value of a character, which Go's string comparison goes by
RuneCode(c) ==
    CASE c = " " -> 32
      [] c = "-" -> 45
      [] c = "." -> 46
      [] c = "/" -> 47
      [] c = "A" -> 65
      [] c = "B" -> 66
      [] c = "a" -> 97
      [] c = "b" -> 98
      [] c = "c" -> 99
      [] c = "f" -> 102
      [] c = "g" -> 103
      [] c = "o" -> 111
      [] c = "r" -> 114
      [] c = "s" -> 115

\* s < t on Go strings
RECURSIVE StringLess(_, _)
StringLess(s, t) ==
    IF t = <<>> THEN FALSE
    ELSE IF s = <<>> THEN TRUE
    ELSE IF RuneCode(Head(s)) < RuneCode(Head(t)) THEN TRUE
    ELSE IF RuneCode(Head(s)) > RuneCode(Head(t)) THEN FALSE
    ELSE StringLess(Tail(s), Tail(t))

\* path.Join of clean, non-empty elements: the elements joined by slashes
PathJoin(elems) == Join(SelectSeq(elems, LAMBDA e : e # <<>>), sSlash)

\* uniqueStrings: the first occurrences, in order
RECURSIVE uniqueStrings(_)
uniqueStrings(strSlice) ==
    IF strSlice = <<>> THEN <<>>
    ELSE LET init == uniqueStrings(SubSeq(strSlice, 1, Len(strSlice) - 1))
             last == strSlice[Len(strSlice)]
         IN  IF last \in Range(init) THEN init ELSE Append(init, last)

\* the ancestors of one identifier, itself included: for each i, the first
\* i segments joined again
Ancestors(pkg) ==
    LET subPkgs == Split(pkg, "/")
    IN  [i \in 1..Len(subPkgs) |-> Join(SubSeq(subPkgs, 1, i), sSlash)]

RECURSIVE WithAncestors(_)
WithAncestors(ps) ==
    IF ps = <<>> THEN <<>> ELSE Ancestors(Head(ps)) \o WithAncestors(Tail(ps))

\* sort.Slice by lower-cased name: the orders a sort by that key may leave,
\* the order of names with equal keys not being fixed
RECURSIVE SortedSeqs(_)
SortedSeqs(S) ==
    IF S = {} THEN {<<>>}
    ELSE UNION { {<<m>> \o t : t \in SortedSeqs(S \ {m})} :
                 m \in {x \in S : \A y \in S : ~StringLess(ToLower(y), ToLower(x))} }
SortedOrders(ps) == SortedSeqs(Range(ps))

\* part_001 filterPkgsWithExcludes
Excluded(pkg, excludePackage) ==
    \/ Contains(pkg, sBackslash)
    \/ Contains(pkg, sTestdata)
    \/ Contains(pkg, sInternal)
    \/ pkg = sCmd
    \/ pkg = excludePackage
    \/ HasPrefix(pkg, excludePackage \o sSlash)

filterPkgsWithExcludes(ps) ==
    SelectSeq(ps, LAMBDA pkg :
        ~\E k \in 1..Len(Split(excludePackages, " ")) :
            Excluded(pkg, Split(excludePackages, " ")[k]))

\* the full set of a filter set: the ancestors added, the duplicates dropped
\* and, in part_001, the excluded names dropped
FullSetNoAncestors(filter) ==
    IF variant = "part_001" THEN filterPkgsWithExcludes(filter) ELSE filter
FullSet(filter) ==
    LET all == uniqueStrings(filter \o WithAncestors(filter))
    IN  IF variant = "part_001" THEN filterPkgsWithExcludes(all) ELSE all

\* part_001 relativeBasePath
RECURSIVE Repeat(_, _)
Repeat(s, n) == IF n <= 0 THEN <<>> ELSE s \o Repeat(s, n - 1)
relativeBasePath(p) ==
    (IF p # <<>> THEN sUp ELSE <<>>) \o Repeat(sUp, Count(p, "/"))

(***************************************************************************)
(* Spec: one run of the program, from the parsed flags to the exit of the  *)
(* process.  What the environment answers (the file system, go list, the   *)
(* backend) is chosen at the step that asks.                               *)
(***************************************************************************)
MaxArgs == 2
\* the answers with the scan marker a backend process gives at most, before
\* its scan is complete
MaxScan == 1

\* " a": an argument with a blank before the name
idSpaceA       == <<" ", "a">>
ArgUniverse    == {idA, idAB, sBlank, idSpaceA}
\* the argument lists: up to MaxArgs identifiers, none given twice (what
\* is discovered below an argument still repeats another one)
ArgLists ==
    {s \in SeqsUpTo(ArgUniverse, MaxArgs) :
        \A i, j \in 1..Len(s) : s[i] = s[j] => i = j}
Destinations   == {<<>>, <<"o">>}
ExcludeChoices == {<<>>, idA}
SystemPkgs     == <<idA, idAB>>
DirModes       == {"none", "gopath", "supplied"}

callerVars  == <<pc, runErr, exited, exitCode, godoc>>
workerVars  == <<wpc, wi, doneVal>>
resolveVars == <<pkgs, filterPkgs, pkgPaths>>
phase2Vars  == <<ci, sourceFiles, listed>>
indexVars   == <<indexRows, indexDone>>
inputVars   == <<flagVars, args, siteDestination, excludePackages, hrefVars, pageVars>>

\* -link-index keeps its default here; the runs with the flag set start
\* at CopyInit
Init ==
    /\ variant \in Variants
    /\ linkIndex = FALSE
    /\ basePath = sSlash
    /\ HrefIdle
    /\ PageIdle
    /\ args \in ArgLists
    /\ siteDestination \in Destinations
    /\ excludePackages \in (IF variant = "part_001" THEN ExcludeChoices ELSE {<<>>})
    /\ pc = "start" /\ runErr = "none" /\ exited = FALSE /\ exitCode = 0
    /\ godoc = "nil" /\ godocStartDir = <<>> /\ timer = "unset"
    /\ pkgs = <<>> /\ filterPkgs = <<>> /\ pkgPaths = <<>>
    /\ wpc = "none" /\ wi = 0 /\ doneVal = "none" /\ inflight = {}
    /\ phase1End = "none" /\ ci = 0 /\ sourceFiles = <<>> /\ listed = <<>>
    /\ written = <<>>
    /\ indexRows = <<>> /\ indexDone = FALSE /\ scanLeft = 0 /\ orphans = 0

\* return err from run (main.go, part_001)
Return(err) ==
    /\ pc' = "returned"
    /\ runErr' = err
    /\ UNCHANGED <<exited, exitCode, godoc>>

\* the backend after an exit that calls no Kill: one that runs is left
\* running (where the platform has the parent-death signal of cmd_linux.go,
\* the kernel ends it once the parent is gone)
LeftAtExit == IF godoc = "running" THEN "orphaned" ELSE godoc

\* log.Fatal: the process exits at once, no deferred call and no Kill runs
Fatal(err) ==
    /\ exited' = TRUE
    /\ exitCode' = 1
    /\ runErr' = err
    /\ godoc' = LeftAtExit
    /\ UNCHANGED pc

\* an error of the caller: part_000 calls log.Fatal where the later
\* generations return the error from run
Fail(err) == IF variant = "part_000" THEN Fatal(err) ELSE Return(err)

\* the destination check and the reading of the description, the footer
\* and (part_001) the creation of the zip file
DestinationUnsetNever == FALSE
DestinationUnset ==
    siteDestination = <<>>

Setup ==
    /\ pc = "start" /\ ~exited
    /\ \E filesOk \in BOOLEAN :
          IF DestinationUnset THEN Fail("destination must be set")
          ELSE IF ~filesOk THEN Fail("failed to read site files")
          ELSE /\ pc' = "godoc"
               /\ UNCHANGED <<runErr, exited, exitCode, godoc>>
    /\ UNCHANGED <<inputVars, indexVars, scanLeft, godocStartDir, orphans, timer, resolveVars, workerVars,
                   inflight, phase1End, phase2Vars, written>>

\* the start of the backend.  part_000 creates the deadline timer right
\* after its three-second sleep, before the resolution.  When the start
\* fails, main.go returns the error with godoc set but its Process nil;
\* part_000 and part_001 (startGodoc) call log.Fatalf
StartBackend ==
    /\ pc = "godoc" /\ ~exited
    /\ \E started \in BOOLEAN :
          IF started
          THEN /\ godoc' = "running"
               /\ scanLeft' = MaxScan
               /\ pc' = "resolve"
               /\ timer' = IF variant = "part_000" THEN "armed" ELSE timer
               /\ UNCHANGED <<runErr, exited, exitCode>>
          ELSE /\ IF variant = "main"
                  THEN /\ pc' = "returned"
                       /\ runErr' = "failed to execute godoc"
                       /\ godoc' = "unstarted"
                       /\ UNCHANGED <<exited, exitCode>>
                  ELSE Fatal("failed to execute godoc")
               /\ UNCHANGED <<timer, scanLeft>>
    /\ godocStartDir' = <<>>
    /\ UNCHANGED orphans
    /\ UNCHANGED <<inputVars, indexVars, resolveVars, workerVars,
                   inflight, phase1End, phase2Vars, written>>

\* what filepath.Walk finds below the directory of a package: the
\* suffixes of its sub-directories
Walk(pkg, hasSub) == IF pkg = idA /\ hasSub THEN <<sSlashB>> ELSE <<>>

\* main.go, part_000: each non-blank argument, followed by the identifiers
\* of the directories below it
RECURSIVE Discover(_, _)
Discover(ps, hasSub) ==
    IF ps = <<>> THEN <<>>
    ELSE LET pkg == Head(ps)
             sub == Walk(pkg, hasSub)
         IN  (IF TrimSpace(pkg) = <<>> THEN <<>>
              ELSE <<pkg>> \o [i \in 1..Len(sub) |-> pkg \o sub[i]])
             \o Discover(Tail(ps), hasSub)

\* part_001: the directory an argument is found in: none, the one below
\* GOPATH/src, or the supplied path of a module
ArgDir(pkg, mode) ==
    CASE mode = "none"     -> <<>>
      [] mode = "gopath"   -> sGopathSrc \o pkg
      [] mode = "supplied" -> sModuleDir

\* part_001: the import paths go list prints for an argument: the package
\* alone when it is searched by name, the packages below the directory
\* when "./..." is searched
GoList(pkg, mode, hasSub) ==
    LET sub == Walk(pkg, hasSub)
    IN  <<pkg>> \o (IF mode = "none" THEN <<>> ELSE [i \in 1..Len(sub) |-> pkg \o sub[i]])

RECURSIVE DiscoverListed(_, _, _, _)
DiscoverListed(ps, mode, hasSub, listOk) ==
    IF ps = <<>> THEN <<>>
    ELSE LET pkg == Head(ps)
         IN  (IF TrimSpace(pkg) = <<>> THEN <<>>
              ELSE <<pkg>> \o (IF listOk THEN GoList(pkg, mode, hasSub) ELSE <<>>))
             \o DiscoverListed(Tail(ps), mode, hasSub, listOk)

\* part_001: pkgPaths after the loop over the arguments, later entries
\* replacing earlier ones.  An entry with the empty string reads as no
\* entry does, and is kept as none
Put(acc, pkg, dir) ==
    IF dir = <<>> THEN [p \in DOMAIN acc \ {pkg} |-> acc[p]]
    ELSE (pkg :> dir) @@ acc

RECURSIVE PutListed(_, _, _, _)
PutListed(acc, ls, mode, dir) ==
    IF ls = <<>> THEN acc
    ELSE PutListed(Put(acc, Head(ls), IF mode = "supplied" THEN dir ELSE sGopathSrc \o Head(ls)),
                   Tail(ls), mode, dir)

RECURSIVE RecordPaths(_, _, _, _, _)
RecordPaths(acc, ps, mode, hasSub, listOk) ==
    IF ps = <<>> THEN acc
    ELSE LET pkg == Head(ps)
             dir == ArgDir(pkg, mode)
             acc1 == IF TrimSpace(pkg) = <<>> THEN acc
                     ELSE IF ~listOk THEN Put(acc, pkg, dir)
                     ELSE IF dir = <<>> THEN acc
                     ELSE PutListed(acc, GoList(pkg, mode, hasSub), mode, dir)
         IN  RecordPaths(acc1, Tail(ps), mode, hasSub, listOk)

\* pkgPaths[pkg], the empty string for a package without an entry
PathOf(pkg) == IF pkg \in DOMAIN pkgPaths THEN pkgPaths[pkg] ELSE <<>>

\* the resolution: the arguments (or the system list), what is discovered
\* below them, the filter set, and the full set with the ancestors, sorted
Resolve ==
    /\ pc = "resolve" /\ ~exited
    /\ \E outcome \in {"ok", "sysfail", "listfail", "walkfail", "modfail"},
          hasSub \in BOOLEAN, mode \in DirModes, listOk \in BOOLEAN :
        LET useSystem == /\ variant # "part_000"
                         /\ \/ Len(args) = 0
                            \/ Len(args) = 1 /\ args[1] = <<>>
            ps        == IF useSystem THEN SystemPkgs ELSE args
            named     == \E i \in 1..Len(ps) : TrimSpace(ps[i]) # <<>>
            newPkgs   == IF variant = "part_001"
                         THEN DiscoverListed(ps, mode, hasSub, listOk)
                         ELSE Discover(ps, hasSub)
            filter    == uniqueStrings(newPkgs)
            full      == FullSet(filter)
        IN  \/ /\ outcome = "sysfail" /\ useSystem
               /\ Return("failed to list system packages")
               /\ UNCHANGED resolveVars
            \/ /\ outcome \in {"listfail", "walkfail"} /\ named /\ variant # "part_001"
               /\ Fail(IF outcome = "listfail" THEN "failed to list source directory"
                                               ELSE "failed to walk source directory")
               /\ UNCHANGED resolveVars
            \/ /\ outcome = "modfail" /\ named /\ variant = "part_001" /\ mode = "supplied"
               /\ Fatal("failed to read mod file")
               /\ UNCHANGED resolveVars
            \/ /\ outcome = "ok" /\ filter = <<>>
               /\ Fail("provide the name of at least one package")
               /\ UNCHANGED resolveVars
            \/ /\ outcome = "ok" /\ filter # <<>>
               /\ \E sorted \in SortedOrders(full) : pkgs' = sorted
               /\ filterPkgs' = filter
               /\ pkgPaths' = IF variant = "part_001"
                              THEN RecordPaths(<<>>, ps, mode, hasSub, listOk)
                              ELSE pkgPaths
               /\ pc' = "spawn"
               /\ UNCHANGED <<runErr, exited, exitCode, godoc>>
    /\ UNCHANGED <<inputVars, indexVars, scanLeft, godocStartDir, orphans, timer, workerVars,
                   inflight, phase1End, phase2Vars, written>>

(***************************************************************************)
(* The pages the backend serves and what the pipeline writes for them.     *)
(***************************************************************************)
PkgUrl(pkg)     == sPkgUrl \o pkg \o sSlash
SrcUrl(pkg, f)  == sSrcUrl \o pkg \o sSlash \o f

\* the page godoc serves at a URL: a head with its own stylesheet and
\* script, the top bar, and a layout block linking to the page itself and
\* to a file
BackendPage(url) ==
    Doc(<<TitleEl, LinkEl("stylesheet", sOldStyle), ScriptEl(sOldScript)>>,
        << El("div", "topbar", {"wide"},
              <<El("div", "", {"container"}, <<Anchor(sSlash, <<>>)>>)>>),
           El("div", "page", {"layout"},
              <<Anchor(url, <<>>), Anchor(fGo, <<>>),
                El("div", "footer", {}, <<>>)>>) >>)

\* the same page while the backend's scan is incomplete: it carries the
\* alert that scanIncomplete is matched against
ScanPage(url) ==
    Doc(<<TitleEl, LinkEl("stylesheet", sOldStyle), ScriptEl(sOldScript)>>,
        << El("div", "topbar", {"wide"},
              <<El("div", "", {"container"}, <<Anchor(sSlash, <<>>)>>)>>),
           El("div", "page", {"layout"},
              <<El("span", "", {"alert"}, <<TextNode(sScanIncomplete)>>),
                Anchor(url, <<>>), Anchor(fGo, <<>>),
                El("div", "footer", {}, <<>>)>>) >>)

\* what the backend answers with: the page, with the alert while it scans
Response(url, scan) == IF scan THEN ScanPage(url) ELSE BackendPage(url)

\* bytes.Contains(body, scanIncomplete)
ContainsScanIncomplete(doc) ==
    \E k \in 1..Len(Find(doc, ByTagClass("span", "alert"))) :
        TextOf(<<Find(doc, ByTagClass("span", "alert"))[k]>>) = sScanIncomplete

\* doc.Find("title").First().SetHtml(path.Base(pkg) + " - " + siteName)
Retitle(doc, pkg, siteName) ==
    SetHtmlFirst(doc, ByTag("title"), <<TextNode(PathBase(pkg) \o sTitleSep \o siteName)>>)

\* the base path updatePage is called with: the -base-path flag, or in
\* part_001 the relative path back to the root
PkgBase(pkg) == IF variant = "part_001" THEN relativeBasePath(pkg) ELSE basePath
SrcBase(pkg) == IF variant = "part_001" THEN relativeBasePath(sSrcSlash \o pkg) ELSE basePath

\* the layout pass over the anchors below the first .layout element
RECURSIVE SuffixAnchors(_)
SuffixAnchors(ns) ==
    [i \in 1..Len(ns) |->
        LET n  == ns[i]
            n1 == IF n.tag = "a" THEN [n EXCEPT !.href = LayoutHref(@)] ELSE n
        IN  [n1 EXCEPT !.kids = SuffixAnchors(n.kids)]]

LayoutPass(doc) ==
    IF Find(doc, ByClass("layout")) = <<>> THEN doc
    ELSE SetHtmlFirst(doc, ByClass("layout"),
                      SuffixAnchors(Find(doc, ByClass("layout"))[1].kids))

\* where a package page and a source page are written
PkgPagePath(pkg) == PathJoin(<<pkg, sIndex>>)

\* the name a source page is written under; OutFileNameAsListed is the
\* variant that appends nothing
OutFileNameAsListed(f) == f
OutFileName(f) ==
    IF variant = "part_000" THEN f \o sHtml
    ELSE IF HasSuffix(f, sHtml) THEN f ELSE f \o sHtml
SrcPagePath(pkg, f) == PathJoin(<<sSrcSlash \o pkg, OutFileName(f)>>)

\* what is written for the body of a response
PkgPageOf(pkg, body) ==
    UpdatePage(Retitle(body, pkg, SiteName), PkgBase(pkg), SiteName)

SrcPageOf(pkg, body) ==
    LET d == UpdatePage(Retitle(body, pkg, SiteName), SrcBase(pkg), SiteName)
    IN  IF variant = "part_000" THEN d ELSE LayoutPass(d)

File(path, kind, url, doc) == [path |-> path, kind |-> kind, url |-> url, doc |-> doc]

(***************************************************************************)
(* Phase 1: the worker goroutine and the caller's select.                  *)
(***************************************************************************)
\* the slice the worker ranges over; WorkerListFilterOnly is the variant
\* that ranges over the filter set in every generation
WorkerListFilterOnly == filterPkgs
WorkerList == IF variant = "part_001" THEN filterPkgs ELSE pkgs

\* where the caller goes once the worker is started; AfterSpawnNoWait is
\* the variant that does not wait for it
AfterSpawnNoWait == "mkdirsrc"
AfterSpawn == "select"

\* go func() { ... }(): main.go creates the deadline timer just before
\* (it has slept until three seconds after the start of the backend);
\* part_001 creates none
SpawnWorker ==
    /\ pc = "spawn" /\ ~exited
    /\ timer' = IF variant = "main" THEN "armed" ELSE timer
    /\ wpc' = "loop"
    /\ wi' = 1
    /\ pc' = AfterSpawn
    /\ UNCHANGED <<inputVars, indexVars, scanLeft, runErr, exited, exitCode, godoc, godocStartDir, orphans,
                   resolveVars, doneVal, inflight, phase1End, phase2Vars, written>>

\* part_001 startGodoc(dir), called by the worker and by phase 2: nothing
\* when the backend already runs for dir; else the old backend is killed
\* and a new one started, and a failure to start is fatal
\* godoc.Process.Kill(); godoc.Wait(): the processes of the old backend that
\* live on; LeftWithoutKill is the variant that starts the new backend
\* beside the old one
LeftWithoutKill(cmd) == IF cmd = "running" THEN 1 ELSE 0
LeftByKillAndWait(cmd) ==
    0

startGodoc(dir, started) ==
    IF variant # "part_001" \/ dir = godocStartDir
    THEN UNCHANGED <<godocStartDir, orphans, godoc, exited, exitCode, runErr, scanLeft>>
    ELSE /\ godocStartDir' = dir
         /\ orphans' = orphans + LeftByKillAndWait(godoc)
         /\ IF started
            THEN /\ godoc' = "running"
                 /\ scanLeft' = MaxScan
                 /\ UNCHANGED <<exited, exitCode, runErr>>
            ELSE /\ godoc' = "killed"
                 /\ UNCHANGED scanLeft
                 /\ exited' = TRUE
                 /\ exitCode' = 1
                 /\ runErr' = "failed to execute godoc"

\* the poller looks for the scan marker in the body and asks again
RetriesOnScanNever == FALSE
RetriesOnScan ==
    variant = "part_001"

\* where the worker of main.go and part_001 goes with an error: to the
\* send on done.  AfterWorkerErrorNoSend is the variant that returns
\* without a send
AfterWorkerErrorNoSend == "stopped"
AfterWorkerError ==
    "send"

\* the head of the worker's loop: after the last package the worker goes
\* to send nil on done
WorkerLoop ==
    /\ wpc = "loop" /\ ~exited
    /\ IF wi > Len(WorkerList)
       THEN /\ doneVal' = "nil"
            /\ wpc' = "send"
            /\ UNCHANGED <<godocStartDir, orphans, godoc, exited, exitCode, runErr, scanLeft>>
       ELSE /\ \E started \in BOOLEAN : startGodoc(PathOf(WorkerList[wi]), started)
            /\ wpc' = "get"
            /\ UNCHANGED doneVal
    /\ UNCHANGED <<inputVars, indexVars, pc, timer, resolveVars, wi, inflight, phase1End,
                   phase2Vars, written>>

\* http.Get of /pkg/{pkg}/ is issued
WorkerGet ==
    /\ wpc = "get" /\ ~exited
    /\ inflight' = inflight \cup {"worker"}
    /\ wpc' = "wait"
    /\ UNCHANGED <<inputVars, indexVars, scanLeft, callerVars, godocStartDir, orphans, timer, resolveVars, wi,
                   doneVal, phase1End, phase2Vars, written>>

\* http.Get returns an error: the worker tries again, without end
WorkerGetFails ==
    /\ wpc = "wait" /\ ~exited
    /\ inflight' = inflight \ {"worker"}
    /\ wpc' = "get"
    /\ UNCHANGED <<inputVars, indexVars, scanLeft, callerVars, godocStartDir, orphans, timer, resolveVars, wi,
                   doneVal, phase1End, phase2Vars, written>>

\* http.Get returns a response, and the rest of the loop body runs: the
\* page is parsed, retitled, transformed and written.  part_001 asks again
\* when the body says the scan is incomplete; main.go and part_000 do not
\* look for that and go on with the body as it is.  An error is sent on done
\* by main.go and part_001; part_000 calls log.Fatalf, or, for a render
\* error, returns without a signal
WorkerPage ==
    /\ wpc = "wait" /\ ~exited
    /\ inflight' = inflight \ {"worker"}
    /\ \E outcome \in {"ok", "scan", "pageerr", "mkdirerr", "rendererr", "writeerr"} :
        LET pkg == WorkerList[wi]
            body == Response(PkgUrl(pkg), outcome = "scan")
        IN  \/ /\ outcome \in {"ok", "scan"}
               /\ outcome = "scan" => scanLeft > 0
               /\ ~(RetriesOnScan /\ ContainsScanIncomplete(body))
               /\ scanLeft' = IF outcome = "scan" THEN scanLeft - 1 ELSE 0
               /\ wi' = wi + 1
               /\ wpc' = "loop"
               /\ UNCHANGED <<doneVal, exited, exitCode, runErr, godoc>>
               /\ written' = Append(written, File(PkgPagePath(pkg), "pkg", PkgUrl(pkg),
                                                  PkgPageOf(pkg, body)))
            \/ /\ outcome = "scan" /\ scanLeft > 0
               /\ RetriesOnScan /\ ContainsScanIncomplete(body)
               /\ scanLeft' = scanLeft - 1
               /\ wpc' = "get"
               /\ UNCHANGED <<wi, doneVal, exited, exitCode, runErr, godoc, written>>
            \/ /\ outcome \notin {"ok", "scan"} /\ variant # "part_000"
               /\ doneVal' = outcome
               /\ wpc' = AfterWorkerError
               /\ UNCHANGED <<wi, exited, exitCode, runErr, godoc, written, scanLeft>>
            \/ /\ outcome = "rendererr" /\ variant = "part_000"
               /\ wpc' = "stopped"
               /\ UNCHANGED <<wi, doneVal, exited, exitCode, runErr, godoc, written, scanLeft>>
            \/ /\ outcome \in {"pageerr", "mkdirerr", "writeerr"} /\ variant = "part_000"
               /\ exited' = TRUE
               /\ exitCode' = 1
               /\ runErr' = outcome
               /\ godoc' = LeftAtExit
               /\ UNCHANGED <<wpc, wi, doneVal, written, scanLeft>>
    /\ UNCHANGED <<inputVars, indexVars, pc, godocStartDir, orphans, timer, resolveVars, phase1End,
                   phase2Vars>>

\* the timer of time.After(15 * time.Second) fires.  Only the select
\* receives from its channel: once the select has returned, a firing
\* changes nothing the program reads, and is left out
TimeoutFires ==
    /\ timer = "armed" /\ ~exited
    /\ pc \in {"resolve", "spawn", "select"}
    /\ timer' = "fired"
    /\ UNCHANGED <<inputVars, indexVars, scanLeft, callerVars, godocStartDir, orphans, resolveVars, workerVars,
                   inflight, phase1End, phase2Vars, written>>

\* where the caller goes after the two cases of its select; the variants
\* DoneTargetIgnoresError and TimeoutTargetFallsThrough go on to phase 2
\* whatever the case
DoneTargetIgnoresError(err) == "mkdirsrc"
DoneTarget(err) == IF err # "nil" THEN "returned" ELSE "mkdirsrc"

TimeoutTargetFallsThrough == "mkdirsrc"
TimeoutTarget == "returned"

\* case err = <-done: the worker, blocked in its send on the unbuffered
\* channel, hands over its value and ends
RecvDone ==
    /\ pc = "select" /\ ~exited
    /\ wpc = "send"
    /\ wpc' = "stopped"
    /\ phase1End' = IF doneVal = "nil" THEN "clean" ELSE "error"
    /\ pc' = DoneTarget(doneVal)
    /\ runErr' = IF doneVal = "nil" THEN runErr ELSE "failed to copy docs"
    /\ UNCHANGED <<inputVars, indexVars, scanLeft, exited, exitCode, godoc, godocStartDir, orphans, timer,
                   resolveVars, wi, doneVal, inflight, phase2Vars, written>>

\* case <-timeout: main.go returns the timeout error, part_000 calls
\* log.Fatal; the select of part_001 has no such case
SelectTimeout ==
    /\ pc = "select" /\ ~exited
    /\ variant # "part_001"
    /\ timer = "fired"
    /\ phase1End' = "timeout"
    /\ IF variant = "part_000"
       THEN Fatal("godoc failed to start in time")
       ELSE /\ pc' = TimeoutTarget
            /\ runErr' = "godoc failed to start in time"
            /\ UNCHANGED <<exited, exitCode, godoc>>
    /\ UNCHANGED <<inputVars, indexVars, scanLeft, godocStartDir, orphans, timer, resolveVars, workerVars,
                   inflight, phase2Vars, written>>

(***************************************************************************)
(* writeIndex: the rows of the root index.  page.go is the builder of      *)
(* part_000; part_002 is the builder of main.go, and stands in for the     *)
(* builder of part_001, which has the same exclusion setting.              *)
(***************************************************************************)
\* the entries of the exclusion setting: strings.Split(excludePackages, " ")
excludePackagesSplit == Split(excludePackages, " ")

\* part_002: the row of pkg is skipped
IndexExcludedExact(pkg) ==
    /\ PageFile = "part_002"
    /\ \E k \in 1..Len(excludePackagesSplit) : pkg = excludePackagesSplit[k]
IndexExcluded(pkg) ==
    /\ PageFile = "part_002"
    /\ \E k \in 1..Len(excludePackagesSplit) :
          \/ pkg = excludePackagesSplit[k]
          \/ HasPrefix(pkg, excludePackagesSplit[k] \o sSlash)

\* the count of the positions at which pkg and lastPkg have the same
\* segment, whatever the case of the letters
SharedSegments(lastPkg, pkg) ==
    LET lastPkgSplit == Split(lastPkg, "/")
        pkgSplit     == Split(pkg, "/")
    IN  Cardinality({i \in 1..Len(pkgSplit) :
            /\ i <= Len(lastPkgSplit)
            /\ ToLower(lastPkgSplit[i]) = ToLower(pkgSplit[i])})

\* the label: the segments of pkg from position shared on
PkgLabel(pkg, shared) ==
    LET pkgSplit == Split(pkg, "/")
    IN  Join(SubSeq(pkgSplit, shared + 1, Len(pkgSplit)), sSlash)

\* the row is a link
LinkPackageAlways(pkg, fs) == TRUE
LinkPackage(pkg, fs) ==
    \E k \in 1..Len(fs) : pkg = fs[k]

\* the index suffix of the link targets
IndexSuffix == IF linkIndex THEN sIndexHtml ELSE <<>>

\* one row of the table
Row(pkg, padding, pkgLabel, fs) ==
    [pkg     |-> pkg,
     padding |-> padding,
     label   |-> pkgLabel,
     link    |-> LinkPackage(pkg, fs),
     href    |-> IF LinkPackage(pkg, fs) THEN pkg \o IndexSuffix ELSE <<>>]

\* the loop over pkgs, from position i on, with the loop's lastPkg and
\* padding
RECURSIVE IndexRowsFrom(_, _, _, _, _)
IndexRowsFrom(ps, fs, i, lastPkg, padding) ==
    IF i > Len(ps) THEN <<>>
    ELSE IF IndexExcluded(ps[i]) THEN IndexRowsFrom(ps, fs, i + 1, lastPkg, padding)
    ELSE LET pkg      == ps[i]
             shared   == SharedSegments(lastPkg, pkg)
             newPad   == IF lastPkg # <<>> THEN shared * 20 ELSE padding
             pkgLabel == IF lastPkg # <<>> THEN PkgLabel(pkg, shared) ELSE pkg
         IN  <<Row(pkg, newPad, pkgLabel, fs)>>
                 \o IndexRowsFrom(ps, fs, i + 1, pkg, newPad)

writeIndexRows(ps, fs) == IndexRowsFrom(ps, fs, 1, <<>>, 0)

(***************************************************************************)
(* Phase 2: the source pages, the stylesheet and the index.                *)
(***************************************************************************)
\* what go list prints for the source files of a package, split on "\n":
\* the templates joined by newlines leave empty lines between the names
ListingChoices ==
    { [ok |-> FALSE, lines |-> <<>>],
      [ok |-> TRUE,  lines |-> <<fGo, <<>>, gGo, <<>>>>] }

\* the entries of the loop over sourceFiles that are not skipped: main.go
\* and part_001 append "index.html" to the listing, part_000 does not;
\* each entry is trimmed and the empty ones are passed over
WithSynthetic(lines) == IF variant = "part_000" THEN lines ELSE Append(lines, sIndex)

SourceFiles(lines) ==
    SelectSeq([i \in 1..Len(WithSynthetic(lines)) |-> TrimSpace(WithSynthetic(lines)[i])],
              LAMBDA f : f # <<>>)

\* os.MkdirAll of the src directory
MkdirSrc ==
    /\ pc = "mkdirsrc" /\ ~exited
    /\ \E ok \in BOOLEAN :
          IF ok
          THEN /\ pc' = "list"
               /\ ci' = 1
               /\ UNCHANGED <<runErr, exited, exitCode, godoc>>
          ELSE /\ Fail("failed to make directory")
               /\ UNCHANGED ci
    /\ UNCHANGED <<inputVars, indexVars, scanLeft, godocStartDir, orphans, timer, resolveVars, workerVars,
                   inflight, phase1End, sourceFiles, listed, written>>

\* the head of the loop over filterPkgs: (part_001: the backend is started
\* for the package's root,) the source files are listed; a package whose
\* listing fails is passed over
ListSources ==
    /\ pc = "list" /\ ~exited
    /\ IF ci > Len(filterPkgs)
       THEN /\ pc' = "mkdirlib"
            /\ UNCHANGED <<ci, sourceFiles, listed, godocStartDir, orphans, godoc, exited,
                           exitCode, runErr, scanLeft>>
       ELSE /\ \E started \in BOOLEAN : startGodoc(PathOf(filterPkgs[ci]), started)
            /\ \E listing \in ListingChoices :
                 /\ listed' = Append(listed, listing)
                 /\ IF listing.ok /\ SourceFiles(listing.lines) # <<>>
                    THEN /\ sourceFiles' = SourceFiles(listing.lines)
                         /\ pc' = "srcget"
                         /\ UNCHANGED ci
                    ELSE /\ ci' = ci + 1
                         /\ UNCHANGED <<pc, sourceFiles>>
    /\ UNCHANGED <<inputVars, indexVars, timer, resolveVars, workerVars, inflight, phase1End,
                   written>>

\* http.Get of /src/{pkg}/{sourceFile} is issued
SrcGet ==
    /\ pc = "srcget" /\ ~exited
    /\ inflight' = inflight \cup {"caller"}
    /\ pc' = "srcwait"
    /\ UNCHANGED <<inputVars, indexVars, scanLeft, runErr, exited, exitCode, godoc, godocStartDir, orphans, timer,
                   resolveVars, workerVars, phase1End, phase2Vars, written>>

\* http.Get returns an error: main.go returns it, part_000 calls
\* log.Fatalf, part_001 tries again
SrcGetFails ==
    /\ pc = "srcwait" /\ ~exited
    /\ inflight' = inflight \ {"caller"}
    /\ IF variant = "part_001"
       THEN /\ pc' = "srcget"
            /\ UNCHANGED <<runErr, exited, exitCode, godoc>>
       ELSE Fail("failed to get source file page")
    /\ UNCHANGED <<inputVars, indexVars, scanLeft, godocStartDir, orphans, timer, resolveVars, workerVars,
                   phase1End, phase2Vars, written>>

\* http.Get returns a response, and the rest of the loop body runs: the
\* page is parsed, retitled, transformed and written under src/{pkg}/.
\* part_000 ends main without a message on a render error
SrcPage ==
    /\ pc = "srcwait" /\ ~exited
    /\ inflight' = inflight \ {"caller"}
    /\ \E outcome \in {"ok", "scan", "pageerr", "mkdirerr", "rendererr", "writeerr"} :
        LET pkg == filterPkgs[ci]
            f   == Head(sourceFiles)
            body == Response(SrcUrl(pkg, f), outcome = "scan")
        IN  \/ /\ outcome \in {"ok", "scan"}
               /\ outcome = "scan" => scanLeft > 0
               /\ ~(RetriesOnScan /\ ContainsScanIncomplete(body))
               /\ scanLeft' = IF outcome = "scan" THEN scanLeft - 1 ELSE 0
               /\ sourceFiles' = Tail(sourceFiles)
               /\ IF Tail(sourceFiles) = <<>>
                  THEN ci' = ci + 1 /\ pc' = "list"
                  ELSE ci' = ci /\ pc' = "srcget"
               /\ UNCHANGED <<runErr, exited, exitCode, godoc>>
               /\ written' = Append(written, File(SrcPagePath(pkg, f), "src", SrcUrl(pkg, f),
                                                  SrcPageOf(pkg, body)))
            \/ /\ outcome = "scan" /\ scanLeft > 0
               /\ RetriesOnScan /\ ContainsScanIncomplete(body)
               /\ scanLeft' = scanLeft - 1
               /\ pc' = "srcget"
               /\ UNCHANGED <<runErr, exited, exitCode, godoc, ci, sourceFiles, written>>
            \/ /\ outcome \notin {"ok", "scan"}
               /\ ~(outcome = "rendererr" /\ variant = "part_000")
               /\ Fail(outcome)
               /\ UNCHANGED <<ci, sourceFiles, written, scanLeft>>
            \/ /\ outcome = "rendererr" /\ variant = "part_000"
               /\ exited' = TRUE
               /\ exitCode' = 0
               /\ godoc' = LeftAtExit
               /\ UNCHANGED <<pc, runErr, ci, sourceFiles, written, scanLeft>>
    /\ UNCHANGED <<inputVars, indexVars, godocStartDir, orphans, timer, resolveVars, workerVars,
                   phase1End, listed>>

\* os.MkdirAll of the lib directory
MkdirLib ==
    /\ pc = "mkdirlib" /\ ~exited
    /\ \E ok \in BOOLEAN :
          IF ok
          THEN /\ pc' = "styleget"
               /\ UNCHANGED <<runErr, exited, exitCode, godoc>>
          ELSE Fail("failed to make directory lib")
    /\ UNCHANGED <<inputVars, indexVars, scanLeft, godocStartDir, orphans, timer, resolveVars, workerVars,
                   inflight, phase1End, phase2Vars, written>>

\* http.Get of /lib/godoc/style.css is issued
StyleGet ==
    /\ pc = "styleget" /\ ~exited
    /\ inflight' = inflight \cup {"caller"}
    /\ pc' = "stylewait"
    /\ UNCHANGED <<inputVars, indexVars, scanLeft, runErr, exited, exitCode, godoc, godocStartDir, orphans, timer,
                   resolveVars, workerVars, phase1End, phase2Vars, written>>

\* http.Get returns an error: part_001 tries again, the others give up
StyleGetFails ==
    /\ pc = "stylewait" /\ ~exited
    /\ inflight' = inflight \ {"caller"}
    /\ IF variant = "part_001"
       THEN /\ pc' = "styleget"
            /\ UNCHANGED <<runErr, exited, exitCode, godoc>>
       ELSE Fail("failed to get style.css")
    /\ UNCHANGED <<inputVars, indexVars, scanLeft, godocStartDir, orphans, timer, resolveVars, workerVars,
                   phase1End, phase2Vars, written>>

\* the stylesheet is read, additionalCSS appended, and lib/style.css written
StyleBody ==
    /\ pc = "stylewait" /\ ~exited
    /\ inflight' = inflight \ {"caller"}
    /\ \E outcome \in {"ok", "readerr", "writeerr"} :
          IF outcome = "ok"
          THEN /\ written' = Append(written, File(PathJoin(<<sLib, sStyleCss>>), "style",
                                                  sStyleUrl, <<>>))
               /\ pc' = "index"
               /\ UNCHANGED <<runErr, exited, exitCode, godoc>>
          ELSE /\ Fail(outcome)
               /\ UNCHANGED written
    /\ UNCHANGED <<inputVars, indexVars, scanLeft, godocStartDir, orphans, timer, resolveVars, workerVars,
                   phase1End, phase2Vars>>

\* writeIndex writes the root index.html, and run returns nil (part_000:
\* main ends); a failure to write is returned (page.go: log.Fatalf)
WriteIndex ==
    /\ pc = "index" /\ ~exited
    /\ \E ok \in BOOLEAN :
          IF ok
          THEN /\ written' = Append(written,
                    File(sIndex, "index", <<>>, writeIndexRows(pkgs, filterPkgs)))
               /\ indexRows' = writeIndexRows(pkgs, filterPkgs)
               /\ indexDone' = TRUE
               /\ runErr' = "nil"
               /\ IF variant = "part_000"
                  THEN /\ exited' = TRUE
                       /\ exitCode' = 0
                       /\ godoc' = LeftAtExit
                       /\ UNCHANGED pc
                  ELSE /\ pc' = "returned"
                       /\ UNCHANGED <<exited, exitCode, godoc>>
          ELSE /\ Fail("failed to write index")
               /\ UNCHANGED <<written, indexVars>>
    /\ UNCHANGED <<inputVars, scanLeft, godocStartDir, orphans, timer, resolveVars, workerVars,
                   inflight, phase1End, phase2Vars>>

\* main, after run has returned: the backend is killed (main.go calls Kill
\* on a nil Process when the start had failed, which panics; part_001
\* checks for it), and log.Fatal ends the process when run gave an error
MainExit ==
    /\ pc = "returned" /\ ~exited
    /\ exited' = TRUE
    /\ godoc' = IF godoc = "running" THEN "killed" ELSE godoc
    /\ exitCode' = IF godoc = "unstarted" THEN 2
                   ELSE IF runErr # "nil" THEN 1 ELSE 0
    /\ UNCHANGED <<inputVars, indexVars, scanLeft, pc, runErr, godocStartDir, orphans, timer, resolveVars,
                   workerVars, inflight, phase1End, phase2Vars, written>>

\* part_001: the worker or phase 2 is in startGodoc for a root other than
\* the one the backend runs for: the old process is killed and waited for,
\* the global godoc is set to a command not yet started, and Start follows
RestartUnderWay ==
    /\ variant = "part_001"
    /\ \/ /\ wpc = "loop" /\ wi <= Len(WorkerList)
          /\ PathOf(WorkerList[wi]) # godocStartDir
       \/ /\ pc = "list" /\ ci <= Len(filterPkgs)
          /\ PathOf(filterPkgs[ci]) # godocStartDir

\* the goroutine of signal.Notify is there: main.go and part_001, once the
\* backend has been started
HandlerInstalled ==
    /\ variant # "part_000"
    /\ godoc = "running"

\* os.Interrupt arrives and the goroutine of the handler runs: it calls
\* godoc.Process.Kill() and os.Exit(1).  It reads the global godoc with no
\* synchronisation; while startGodoc is under way it may find the command
\* that is not yet started, whose Process is nil (a nil dereference: the
\* program panics), or kill the old process again and exit after the new
\* one has been started.
Interrupt ==
    /\ ~exited
    /\ HandlerInstalled
    /\ \E outcome \in {"kill", "nilprocess", "stale"} :
          \/ /\ outcome = "kill"
             /\ godoc' = "killed"
             /\ exitCode' = 1
          \/ /\ outcome = "nilprocess" /\ RestartUnderWay
             /\ godoc' = "killed"
             /\ exitCode' = 2
          \/ /\ outcome = "stale" /\ RestartUnderWay
             /\ godoc' = "orphaned"
             /\ exitCode' = 1
    /\ exited' = TRUE
    /\ UNCHANGED <<inputVars, indexVars, scanLeft, pc, runErr, godocStartDir, orphans, timer, resolveVars,
                   workerVars, inflight, phase1End, phase2Vars, written>>

Next ==
    \/ Setup
    \/ StartBackend
    \/ Resolve
    \/ SpawnWorker
    \/ WorkerLoop
    \/ WorkerGet
    \/ WorkerGetFails
    \/ WorkerPage
    \/ TimeoutFires
    \/ RecvDone
    \/ SelectTimeout
    \/ MkdirSrc
    \/ ListSources
    \/ SrcGet
    \/ SrcGetFails
    \/ SrcPage
    \/ MkdirLib
    \/ StyleGet
    \/ StyleGetFails
    \/ StyleBody
    \/ WriteIndex
    \/ MainExit
    \/ Interrupt

Spec == Init /\ [][Next]_vars

(***************************************************************************)
(* The full set and the index on their own: the filter set is drawn from   *)
(* a wider universe than the run's, the full set is derived and sorted as  *)
(* run does it, and writeIndex emits the rows.                             *)
(***************************************************************************)
MaxIndexPkgs == 2

idAAB    == <<"a", "/", "a", "/", "b">>
idADashB == <<"a", "-", "b", "/", "b">>
idUpperA == <<"A", "/", "b">>

IndexUniverse == {idA, <<"a", "/", "a">>, idAAB, idAB, idADashB, idUpperA, idB}

\* the filter sets: uniqueStrings leaves no name twice, and run stops on an
\* empty one
IndexFilterLists ==
    {s \in SeqsUpTo(IndexUniverse, MaxIndexPkgs) :
        /\ s # <<>>
        /\ \A i, j \in 1..Len(s) : i # j => s[i] # s[j]}

IndexExcludeChoices == {<<>>, idA, <<"a", "/", "a", " ", "b">>}

IndexInit ==
    /\ variant \in Variants
    /\ linkIndex \in BOOLEAN
    /\ basePath = sSlash
    /\ HrefIdle
    /\ PageIdle
    /\ args = <<>> /\ siteDestination = <<"o">>
    /\ excludePackages \in (IF variant = "part_000" THEN {<<>>} ELSE IndexExcludeChoices)
    /\ pc = "ancestors" /\ runErr = "none" /\ exited = FALSE /\ exitCode = 0
    /\ godoc = "running" /\ godocStartDir = <<>> /\ timer = "unset"
    /\ pkgs = <<>> /\ filterPkgs \in IndexFilterLists /\ pkgPaths = <<>>
    /\ wpc = "none" /\ wi = 0 /\ doneVal = "none" /\ inflight = {}
    /\ phase1End = "none" /\ ci = 0 /\ sourceFiles = <<>> /\ listed = <<>>
    /\ written = <<>>
    /\ indexRows = <<>> /\ indexDone = FALSE /\ scanLeft = 0 /\ orphans = 0

\* run: the ancestors are added to the filter set, the duplicates (and in
\* part_001 the excluded names) dropped, and the result sorted
SortFullSet ==
    /\ pc = "ancestors"
    /\ \E sorted \in SortedOrders(FullSet(filterPkgs)) : pkgs' = sorted
    /\ pc' = "writeindex"
    /\ UNCHANGED <<inputVars, indexVars, scanLeft, runErr, exited, exitCode, godoc, godocStartDir, orphans,
                   timer, filterPkgs, pkgPaths, workerVars, inflight, phase1End,
                   phase2Vars, written>>

\* writeIndex: the loop over the full set
EmitIndex ==
    /\ pc = "writeindex"
    /\ indexRows' = writeIndexRows(pkgs, filterPkgs)
    /\ indexDone' = TRUE
    /\ pc' = "indexed"
    /\ UNCHANGED <<inputVars, scanLeft, runErr, exited, exitCode, godoc, godocStartDir, orphans, timer,
                   resolveVars, workerVars, inflight, phase1End, phase2Vars, written>>

IndexNext == SortFullSet \/ EmitIndex
IndexSpec == IndexInit /\ [][IndexNext]_vars


(***************************************************************************)
(* The copying on its own, from the end of the resolution: the arguments   *)
(* name packages of a wider universe than the run's, none of them with     *)
(* sub-directories, and the worker, phase 2, the stylesheet and the index  *)
(* run as they do in the run.                                              *)
(***************************************************************************)
idSrcA == <<"s", "r", "c", "/", "a">>
idADotA == <<"a", ".", "a">>

CopyUniverse == {idA, idSrcA, idADotA}

CopyArgLists ==
    {s \in SeqsUpTo(CopyUniverse, MaxArgs) :
        /\ s # <<>>
        /\ \A i, j \in 1..Len(s) : s[i] = s[j] => i = j}

\* the state run is in when the resolution has ended without an error
CopyInit ==
    /\ variant \in Variants
    /\ linkIndex \in BOOLEAN
    /\ basePath = sSlash
    /\ HrefIdle
    /\ PageIdle
    /\ args \in CopyArgLists
    /\ siteDestination = <<"o">>
    /\ excludePackages = <<>>
    /\ pc = "spawn" /\ runErr = "none" /\ exited = FALSE /\ exitCode = 0
    /\ godoc = "running" /\ godocStartDir = <<>>
    /\ timer = (IF variant = "part_000" THEN "armed" ELSE "unset")
    /\ filterPkgs = uniqueStrings(Discover(args, FALSE))
    /\ pkgs \in SortedOrders(FullSet(uniqueStrings(Discover(args, FALSE))))
    /\ pkgPaths = <<>>
    /\ wpc = "none" /\ wi = 0 /\ doneVal = "none" /\ inflight = {}
    /\ phase1End = "none" /\ ci = 0 /\ sourceFiles = <<>> /\ listed = <<>>
    /\ written = <<>>
    /\ indexRows = <<>> /\ indexDone = FALSE /\ scanLeft = MaxScan /\ orphans = 0

CopyNext ==
    \/ SpawnWorker
    \/ WorkerLoop
    \/ WorkerGet
    \/ WorkerGetFails
    \/ WorkerPage
    \/ TimeoutFires
    \/ RecvDone
    \/ SelectTimeout
    \/ MkdirSrc
    \/ ListSources
    \/ SrcGet
    \/ SrcGetFails
    \/ SrcPage
    \/ MkdirLib
    \/ StyleGet
    \/ StyleGetFails
    \/ StyleBody
    \/ WriteIndex
    \/ MainExit
    \/ Interrupt

CopySpec == CopyInit /\ [][CopyNext]_vars
(***************************************************************************)
(* Claims about rule 4.                                                    *)
(***************************************************************************)
\* the segments of s between slashes, in order (empty ones included)
RECURSIVE SplitSlash(_)
SplitSlash(s) ==
    IF ~ContainsRune(s, "/") THEN <<s>>
    ELSE LET i == CHOOSE k \in 1..Len(s) : s[k] = "/" /\ \A j \in 1..(k - 1) : s[j] # "/"
         IN  <<SubSeq(s, 1, i - 1)>> \o SplitSlash(SubSeq(s, i + 1, Len(s)))

\* the last non-empty segment of a path
FinalSegment(s) ==
    LET segs == SelectSeq(SplitSlash(s), LAMBDA x : x # <<>>)
    IN  IF segs = <<>> THEN <<>> ELSE segs[Len(segs)]

NamesFile(s) == "." \in {FinalSegment(s)[i] : i \in 1..Len(FinalSegment(s))}

HasQueryOrFragment(s) == \E i \in 1..Len(s) : s[i] \in {"?", "#"}

PkgOrSrc(s) ==
    /\ Len(s) >= 5
    /\ <<s[1], s[5]>> = <<"/", "/">>
    /\ <<s[2], s[3], s[4]>> \in {<<"p", "k", "g">>, <<"s", "r", "c">>}

\* what the spec says a query-free, fragment-free href becomes
ExpectedPlain(s) ==
    LET appended == IF NamesFile(s) THEN s \o sHtml
                    ELSE IF linkIndex THEN s \o sIndexHtml ELSE s
        segs     == SplitSlash(appended)
        kept     == IF segs[2] = <<"p", "k", "g">>
                    THEN SubSeq(appended, 5, Len(appended))
                    ELSE appended
    IN  basePath \o Tail(kept)

\* C7: an href under /pkg/ or /src/ without query or fragment gets ".html"
\* appended when its final path segment names a file, "/index.html" when it
\* names a directory and index-linking is on, loses a leading "/pkg" and has
\* its leading "/" replaced by the base path; /pkg/a/a becomes {base}a/a and
\* /src/a.a becomes {base}src/a.a.html.
C7_LinkRewrite ==
    /\ (hrefDone /\ PkgOrSrc(href) /\ ~HasQueryOrFragment(href))
          => hrefOut = ExpectedPlain(href)
    /\ (hrefDone /\ href = sPkg \o <<"a", "/", "a">>)
          => hrefOut = basePath \o <<"a", "/", "a">>
                         \o (IF linkIndex THEN sIndexHtml ELSE <<>>)
    /\ (hrefDone /\ href = sSrc \o <<"a", ".", "a">>)
          => hrefOut = basePath \o <<"s", "r", "c", "/", "a", ".", "a">> \o sHtml

C7_Witness ==
    /\ hrefDone
    /\ linkIndex
    /\ href = sPkg \o <<"a", "/", "a">>
    /\ hrefOut = basePath \o <<"a", "/", "a">> \o sIndexHtml

\* the href up to, and from, its first "?" or "#"
FirstMark(s) == CHOOSE i \in 1..Len(s) : s[i] \in {"?", "#"} /\ \A j \in 1..(i - 1) : s[j] \notin {"?", "#"}
BeforeMark(s) == SubSeq(s, 1, FirstMark(s) - 1)
FromMark(s)   == SubSeq(s, FirstMark(s), Len(s))

\* C8: for an href under /pkg/ or /src/ with a query and/or a fragment the
\* file-or-directory decision is that of the path before the first "?" or
\* "#", and the inserted text stands immediately before that first "?" or
\* "#", the rest unchanged.
C8_QueryFragment ==
    (hrefDone /\ PkgOrSrc(href) /\ HasQueryOrFragment(href))
        => hrefOut = ExpectedPlain(BeforeMark(href)) \o FromMark(href)

(***************************************************************************)
(* Claims about the head/navigation rules and the whole transformer.       *)
(***************************************************************************)
StylesheetLinks(doc) == SelectSeq(Find(doc, ByTag("link")), LAMBDA n : n.rel = "stylesheet")

\* C9: rules 1-3 (remove links and scripts, insert the stylesheet link,
\* replace the top bar) are idempotent: a second pass leaves the document
\* of the first pass, with one stylesheet link and one top bar.
C9_HeadNavIdempotent ==
    headNavRuns = 2 =>
        /\ page = pageOnce
        /\ Len(Find(page, ByTag("link"))) = 1
        /\ Len(Find(page, ById("heading-wide"))) <= 1

C9_Witness ==
    /\ headNavRuns = 2
    /\ Find(pageIn, ByTag("link")) # <<>>
    /\ Find(pageIn, ById("topbar")) # <<>>
    /\ Len(Find(page, ById("heading-wide"))) = 1
    /\ Len(Find(page, ByTag("link"))) = 1

\* C10 as stated: after updatePage the document has no script element and
\* exactly one stylesheet link, whose href is basePath + "lib/style.css".
C10_NoScriptOneStylesheet ==
    updated =>
        /\ Find(page, ByTag("script")) = <<>>
        /\ Len(StylesheetLinks(page)) = 1
        /\ StylesheetLinks(page)[1].href = basePath \o sLibStyle

\* C10 amended: after updatePage the document has exactly one stylesheet
\* link, whose href is basePath + "lib/style.css", and no script element of
\* the backend: part_002 leaves none, page.go leaves only the script it
\* appends to <body> itself (src basePath + "lib/godoc-static.js").
C10_OwnScriptOneStylesheet ==
    updated =>
        /\ Len(StylesheetLinks(page)) = 1
        /\ StylesheetLinks(page)[1].href = basePath \o sLibStyle
        /\ \A i \in 1..Len(Find(page, ByTag("script"))) :
              Find(page, ByTag("script"))[i].src = basePath \o sLibJs
        /\ Len(Find(page, ByTag("script"))) = (IF variant = "part_000" THEN 1 ELSE 0)

C10_Witness ==
    /\ updated
    /\ Len(Find(pageIn, ByTag("script"))) >= 2
    /\ Len(Find(pageIn, ByTag("link"))) >= 2
    /\ variant = "part_000"
    /\ Len(Find(page, ByTag("script"))) = 1

(***************************************************************************)
(* Claims about the run.                                                   *)
(***************************************************************************)
\* the run under the scheduling the Go runtime gives: the timer fires once
\* its time has passed, and a goroutine that can take a step takes one.
\* Nothing obliges the backend to answer
FairSpec ==
    /\ Spec
    /\ WF_vars(TimeoutFires)
    /\ WF_vars(SelectTimeout)
    /\ WF_vars(RecvDone)
    /\ WF_vars(WorkerLoop)
    /\ WF_vars(WorkerGet)

\* C1: the caller does not wait for the worker for ever: whenever it waits
\* in its select it leaves the select (by the deadline if the backend never
\* answers), and the error of the deadline is another one than the error
\* that reports a worker's failure.
C1_DeadlineEndsTheWait ==
    /\ [](phase1End = "timeout" => runErr = "godoc failed to start in time")
    /\ [](phase1End = "error" => runErr = "failed to copy docs")
    /\ (pc = "select" /\ ~exited) ~> (pc # "select" \/ exited)

\* the entries of the write log of one kind
WrittenOfKind(kind) == {i \in 1..Len(written) : written[i].kind = kind}

\* C2: when phase 1 ends with a worker-reported error or with the deadline,
\* the run ends with an error and nothing after phase 1 is produced: no
\* page under src/, no lib/style.css, no root index.html.
C2_FailedPhase1StopsTheRun ==
    phase1End \in {"error", "timeout"} =>
        /\ runErr \notin {"none", "nil"}
        /\ pc = "returned" \/ exited
        /\ listed = <<>>
        /\ \A i \in 1..Len(written) : written[i].kind = "pkg"

C2_Witness ==
    /\ phase1End = "timeout"
    /\ exited
    /\ written # <<>>

\* a phase-2 operation is under way or has happened: a source listing, or
\* a request under /src/
Phase2Operated ==
    \/ listed # <<>>
    \/ pc \in {"srcget", "srcwait"}
    \/ WrittenOfKind("src") # {}

\* C3: phase 2 never overlaps phase 1: a source listing or a /src/ request
\* happens only after the worker has processed every package and the
\* caller has received its clean completion signal.
C3_Phase2AfterPhase1 ==
    Phase2Operated =>
        /\ phase1End = "clean"
        /\ wpc = "stopped"
        /\ wi = Len(IF variant = "part_001" THEN filterPkgs ELSE pkgs) + 1
        /\ Cardinality(WrittenOfKind("pkg")) = wi - 1

C3_Witness ==
    /\ pc = "srcwait"
    /\ wi > 2
    /\ ci = 2

\* C4: at most one HTTP GET is in flight at any time: the worker's and the
\* caller's requests never overlap, around the deadline included.
C4_OneGetInFlight == Cardinality(inflight) <= 1

C4_Witness ==
    /\ timer = "fired"
    /\ phase1End = "timeout"
    /\ inflight = {"worker"}

\* the package page the pipeline is to write for an identifier, from the
\* body the backend answered with
ExpectedPkgFile(id, scan) ==
    File(id \o sIndexHtml, "pkg", sPkg \o id \o sSlash,
         PkgPageOf(id, Response(PkgUrl(id), scan)))

PkgPageWritten(id) ==
    \E i \in 1..Len(written) :
        /\ written[i].path = id \o sIndexHtml
        /\ written[i] = ExpectedPkgFile(id, ContainsScanIncomplete(written[i].doc))

\* phase 1 has just finished cleanly: the caller has received nil and
\* stands before phase 2 (what is written stays written from there on)
Phase1Clean == phase1End = "clean" /\ pc = "mkdirsrc"

\* C5 as stated: when phase 1 finishes cleanly, for every identifier of the
\* full set the page /pkg/{identifier}/ has been transformed and written to
\* {identifier}/index.html below the destination.
C5_FullSetPagesWritten ==
    Phase1Clean => \A id \in Range(pkgs) : PkgPageWritten(id)

\* C5 amended: when phase 1 finishes cleanly, for every identifier the
\* worker ranges over (the full set in main.go and part_000, the filter set
\* in part_001) the page /pkg/{identifier}/ has been transformed and written
\* to {identifier}/index.html below the destination.
C5_WorkerSetPagesWritten ==
    Phase1Clean =>
        \A id \in Range(IF variant = "part_001" THEN filterPkgs ELSE pkgs) :
            PkgPageWritten(id)

C5_Witness ==
    /\ Phase1Clean
    /\ variant = "main"
    /\ Range(pkgs) # Range(filterPkgs)
    /\ Len(pkgs) > 2

\* the names a listing gives, and the written name of one of them
NamesOf(lines) == {TrimSpace(lines[i]) : i \in 1..Len(lines)} \ {<<>>}
HtmlName(f)    == IF HasSuffix(f, sHtml) THEN f ELSE f \o sHtml

\* the source page of file f of package id has been fetched from
\* /src/{id}/{f} and written exactly once, under src/{id}/, as name
SrcPageWrittenOnce(id, f, name) ==
    /\ Cardinality({i \in WrittenOfKind("src") :
                       written[i].path = sSrcSlash \o id \o sSlash \o name}) = 1
    /\ \E i \in 1..Len(written) :
          /\ written[i].path = sSrcSlash \o id \o sSlash \o name
          /\ written[i] = File(sSrcSlash \o id \o sSlash \o name, "src",
                               sSrc \o id \o sSlash \o f,
                               SrcPageOf(id, Response(SrcUrl(id, f),
                                             ContainsScanIncomplete(written[i].doc))))

\* the loop over the filter packages has just ended (what is written stays
\* written from there on)
SourcesCopied == pc = "mkdirlib"

\* C6 as stated: in phase 2, for every filter package whose listing
\* succeeds, each listed file f and the synthetic entry "index.html" is
\* fetched from /src/{identifier}/{f}, transformed and written under
\* src/{identifier}/ exactly once, as f + ".html" unless f ends in ".html".
C6_ListedAndIndexWritten ==
    SourcesCopied =>
        \A k \in 1..Len(filterPkgs) :
            listed[k].ok =>
                \A f \in NamesOf(listed[k].lines) \cup {sIndex} :
                    SrcPageWrittenOnce(filterPkgs[k], f, HtmlName(f))

\* C6 amended: in main.go and part_001 as stated; in part_000 there is no
\* synthetic entry, and each listed file f is written as f + ".html".
C6_ListedWrittenPerGeneration ==
    SourcesCopied =>
        \A k \in 1..Len(filterPkgs) :
            listed[k].ok =>
                IF variant = "part_000"
                THEN \A f \in NamesOf(listed[k].lines) :
                        SrcPageWrittenOnce(filterPkgs[k], f, f \o sHtml)
                ELSE \A f \in NamesOf(listed[k].lines) \cup {sIndex} :
                        SrcPageWrittenOnce(filterPkgs[k], f, HtmlName(f))

C6_Witness ==
    /\ SourcesCopied
    /\ variant = "main"
    /\ \E k \in 1..Len(filterPkgs) : listed[k].ok /\ Cardinality(NamesOf(listed[k].lines)) = 2
    /\ \E k \in 1..Len(filterPkgs) : ~listed[k].ok

(***************************************************************************)
(* Claims about the layout pass of the source pages.                       *)
(***************************************************************************)
\* C11: the layout pass of phase 2 changes only hrefs that rule 4 did not
\* rewrite: an href rule 4 has rewritten, one with a query or fragment
\* after the inserted ".html" included, is left exactly as rule 4 made it.
C11_LayoutPassKeepsRewritten ==
    (layoutDone /\ hrefOut # href) => hrefLayout = hrefOut

(***************************************************************************)
(* Claims about the index builder and the sets it is given.                *)
(***************************************************************************)
\* the number of leading segments two identifiers share, whatever the case
\* of the letters: the count stops at the first segment that differs
RECURSIVE LeadingShared(_, _)
LeadingShared(xs, ys) ==
    IF xs = <<>> \/ ys = <<>> THEN 0
    ELSE IF ToLower(Head(xs)) # ToLower(Head(ys)) THEN 0
    ELSE 1 + LeadingShared(Tail(xs), Tail(ys))

\* C12: a row of the index is indented by 20 times the number of leading
\* segments its identifier shares, whatever the letter case, with the
\* identifier of the row emitted before it, and labelled with the identifier
\* less those segments; the first row has indentation 0 and the whole
\* identifier as its label.
C12_IndentBySharedLeadingSegments ==
    indexDone =>
        \A k \in 1..Len(indexRows) :
            LET row == indexRows[k]
                seg == Split(row.pkg, "/")
                n   == IF k = 1 THEN 0
                       ELSE LeadingShared(Split(indexRows[k - 1].pkg, "/"), seg)
            IN  /\ row.padding = 20 * n
                /\ row.label = Join(SubSeq(seg, n + 1, Len(seg)), sSlash)

\* C13: a row of the index is a hyperlink exactly when its identifier is in
\* the filter set; a row that is there as an ancestor only is plain text.
C13_LinkIffInFilterSet ==
    indexDone =>
        \A k \in 1..Len(indexRows) :
            /\ indexRows[k].link <=> indexRows[k].pkg \in Range(filterPkgs)
            /\ indexRows[k].link => indexRows[k].href = indexRows[k].pkg \o IndexSuffix
            /\ ~indexRows[k].link => indexRows[k].href = <<>>

\* an index with a linked row and with the row of an ancestor nobody asked for
C13_Witness ==
    /\ indexDone
    /\ \E k \in 1..Len(indexRows) : indexRows[k].link
    /\ \E k \in 1..Len(indexRows) :
          /\ ~indexRows[k].link
          /\ indexRows[k].pkg \notin Range(filterPkgs)

\* the entries of the exclusion list, the empty list having none
ExclusionEntries ==
    IF excludePackages = <<>> THEN <<>> ELSE Split(excludePackages, " ")

AncestorSet(p) ==
    {SubSeq(p, 1, n) : n \in {m \in 0..Len(p) : m = Len(p) \/ p[m + 1] = "/"}}

ClosedUnderAncestors(S) == \A p \in S : AncestorSet(p) \subseteq S

\* the full set has been derived
FullSetDerived == pc \in {"writeindex", "indexed"}

\* the identifiers part_001 keeps out of the full set
DroppedByExcludes(p) ==
    \E k \in 1..Len(Split(excludePackages, " ")) :
        Excluded(p, Split(excludePackages, " ")[k])

\* C15: the full set, which phase 1 and the index builder iterate, is closed
\* under ancestors and contains the filter set.
C15_FullSetClosedContainsFilter ==
    FullSetDerived =>
        /\ ClosedUnderAncestors(Range(pkgs))
        /\ Range(filterPkgs) \subseteq Range(pkgs)

\* C15 (as the generations have it): in main.go and part_000 the full set is
\* closed under ancestors and contains the filter set; in part_001 it is
\* the filter set with its ancestors less the identifiers the exclusions
\* drop.
C15_FullSetPerGeneration ==
    FullSetDerived =>
        LET closure == UNION {AncestorSet(p) : p \in Range(filterPkgs)}
        IN  IF variant = "part_001"
            THEN Range(pkgs) = {p \in closure : ~DroppedByExcludes(p)}
            ELSE /\ Range(pkgs) = closure
                 /\ ClosedUnderAncestors(Range(pkgs))
                 /\ Range(filterPkgs) \subseteq Range(pkgs)

\* part_001 with "a" excluded, asked for a/b, which is dropped, and for
\* a-b/b, which stays and brings its ancestor a-b with it
C15_Witness ==
    /\ FullSetDerived
    /\ variant = "part_001"
    /\ excludePackages = idA
    /\ idAB \in Range(filterPkgs)
    /\ idAB \notin Range(pkgs)
    /\ idADashB \in Range(pkgs)
    /\ \E p \in Range(pkgs) : p \notin Range(filterPkgs)

\* C17: the order of the full set depends on its contents alone: whatever
\* the order of discovery, the same identifiers come out in the same
\* sequence, identifiers that differ in letter case only included.
C17_OrderFromContentsOnly ==
    FullSetDerived => SortedOrders(pkgs) = {pkgs}

(***************************************************************************)
(* Claims about the resolution and the start of the run.                   *)
(***************************************************************************)
NoDuplicates(s) == \A i, j \in 1..Len(s) : s[i] = s[j] => i = j

\* C16: every identifier of the filter set and of the full set is non-empty
\* and has no whitespace at its start or end, and neither set holds an
\* identifier twice.
C16_IdentifiersTrimmedAndUnique ==
    /\ NoDuplicates(filterPkgs)
    /\ NoDuplicates(pkgs)
    /\ \A p \in Range(filterPkgs) \cup Range(pkgs) :
          p # <<>> /\ TrimSpace(p) = p

\* the run has failed for want of a package
NoPackageResolved == runErr = "provide the name of at least one package"

\* no request has gone to the backend: neither the worker nor phase 2 has
\* begun
NoRequestSent == inflight = {} /\ wpc = "none" /\ ci = 0 /\ listed = <<>>

\* C18: with no destination set, or with no identifier that resolves to a
\* package, the run fails before anything is done with the backend (it is
\* neither started nor asked for a page) and before any file is written.
C18_FailsBeforeBackend ==
    (siteDestination = <<>> \/ NoPackageResolved) =>
        /\ godoc = "nil"
        /\ NoRequestSent
        /\ written = <<>>

\* C18 (as the code orders it): with no destination set the run fails
\* before the backend is started; with no identifier that resolves to a
\* package it fails after the backend has been started, before any request
\* is sent to it; in both cases no page has been written, and the exit
\* status is not 0.
C18_FailsBeforeRequests ==
    /\ siteDestination = <<>> =>
          /\ godoc = "nil"
          /\ NoRequestSent
          /\ written = <<>>
          /\ exited => exitCode # 0
    /\ NoPackageResolved =>
          /\ godoc # "nil"
          /\ NoRequestSent
          /\ written = <<>>
          /\ exited => exitCode # 0

\* main.go, given blank arguments only, has exited with the error and has
\* killed the backend it had started
C18_Witness ==
    /\ variant = "main"
    /\ NoPackageResolved
    /\ exited
    /\ godoc = "killed"
    /\ args # <<>>

\* C19: however the program exits once a backend process has been started
\* (run has ended well, run has returned an error, the deadline has passed,
\* or a helper has called log.Fatal), the backend has been killed first.
C19_BackendKilledAtExit ==
    exited => godoc \in {"nil", "unstarted", "killed"}

\* C20: an interrupt signal that arrives once the backend has been started,
\* a restart of the backend by the worker or by phase 2 under way or not,
\* has the handler kill the backend process of that moment and exit with
\* status 1; the handler does not crash.
C20_InterruptKillsCurrentBackend ==
    [][Interrupt => (godoc' = "killed" /\ exitCode' = 1)]_vars


(***************************************************************************)
(* Claims about the poller: scan marker, network errors, completion signal *)
(***************************************************************************)

\* the written pages of phases 1 and 2
EmittedPages == {i \in 1..Len(written) : written[i].kind \in {"pkg", "src"}}

\* C21: a response body with the "scan is not yet complete" marker is never
\* transformed or written: every page emitted in phases 1 and 2 comes from a
\* response without the marker.
C21_NoPageFromScanningBackend ==
    \A i \in EmittedPages : ~ContainsScanIncomplete(written[i].doc)

\* C22: a network error on a backend GET is never surfaced as an error of the
\* run: for package pages and source-file pages alike the poller asks again,
\* and neither a run error nor an exit comes of the failed GET.
C22_GetErrorNeverSurfaced ==
    [][(WorkerGetFails \/ SrcGetFails)
          => (runErr' = runErr /\ exited' = exited /\ doneVal' = doneVal)]_vars

\* C23: on every path by which the phase-1 worker stops it has handed one
\* value to the caller over the completion channel (the first error or the
\* clean completion), so the caller never takes a stopped worker for one
\* that ran out of time.
C23_StoppedWorkerHasSignalled ==
    wpc = "stopped" => phase1End \in {"clean", "error"}

(***************************************************************************)
(* Claims about the order of the fetches and the backend per root          *)
(***************************************************************************)

\* the pages of one kind, in the order they were written
WritesOfKind(kind) == SelectSeq(written, LAMBDA w : w.kind = kind)

\* the places in list of the package a page under /src/ was fetched for
SrcOwners(url, list) ==
    {j \in 1..Len(list) :
        /\ HasPrefix(url, sSrcUrl \o list[j] \o sSlash)
        /\ "/" \notin Range(SliceFrom(url, Len(sSrcUrl \o list[j] \o sSlash)))}

\* the pages of phase 1 were written for list[1], list[2], ... in turn
PkgPagesFollow(list) ==
    LET ws == WritesOfKind("pkg")
    IN  /\ Len(ws) <= Len(list)
        /\ \A k \in 1..Len(ws) : ws[k].url = PkgUrl(list[k])

\* the pages of phase 2 were written for the packages of list, never for
\* an earlier package after a later one
SrcPagesFollow(list) ==
    LET ws     == WritesOfKind("src")
        owners == [i \in 1..Len(ws) |-> SrcOwners(ws[i].url, list)]
    IN  \A i2 \in 1..Len(ws) :
           /\ owners[i2] # {}
           /\ \A i1 \in 1..i2 : \E j1 \in owners[i1], j2 \in owners[i2] : j1 <= j2

\* C24 as stated: in phase 1 and in phase 2 the packages are fetched and
\* written strictly in the order of the case-insensitively sorted full set.
C24_SortedFullSetOrder ==
    PkgPagesFollow(pkgs) /\ SrcPagesFollow(pkgs)

\* C24: each phase fetches and writes in the order of the list it ranges
\* over: phase 1 of main.go and part_000 in the order of the sorted full
\* set, phase 1 of part_001 and phase 2 of every generation in the order of
\* the filter set, which is the order of discovery.
C24_OrderOfTheListRangedOver ==
    /\ PkgPagesFollow(IF variant = "part_001" THEN filterPkgs ELSE pkgs)
    /\ SrcPagesFollow(filterPkgs)

\* phase 2 of main.go has written source pages of a/b and then of a
C24_Witness ==
    /\ variant = "main"
    /\ filterPkgs = <<idAB, idA>>
    /\ pkgs = <<idA, idAB>>
    /\ Len(WritesOfKind("pkg")) = 2
    /\ ci = 2
    /\ WritesOfKind("src") # <<>>
    /\ SrcOwners(WritesOfKind("src")[Len(WritesOfKind("src"))].url, filterPkgs) = {2}

\* the backend processes alive
LiveBackends == (IF godoc \in {"running", "orphaned"} THEN 1 ELSE 0) + orphans

\* C26: in the generation that restarts the backend per package root, at
\* most one backend process is alive whatever startGodoc calls were made,
\* and while a request under /pkg/ or /src/ for a package is being made the
\* backend that runs is the one started for the root recorded for it.
C26_OneBackendForThePackageRoot ==
    variant = "part_001" =>
        /\ LiveBackends <= 1
        /\ (~exited /\ wpc \in {"get", "wait"}) =>
              /\ godoc = "running"
              /\ godocStartDir = PathOf(filterPkgs[wi])
        /\ (~exited /\ pc \in {"srcget", "srcwait"}) =>
              /\ godoc = "running"
              /\ godocStartDir = PathOf(filterPkgs[ci])

\* the backend has been restarted for the root of a second package, and
\* its page is being asked for
C26_Witness ==
    /\ variant = "part_001"
    /\ ~exited
    /\ wi = 2 /\ wpc = "wait"
    /\ PathOf(filterPkgs[1]) # PathOf(filterPkgs[2])
    /\ godocStartDir = PathOf(filterPkgs[2])
    /\ godoc = "running"

\* C27: within one run no two writes go to the same output path: the
\* package pages, the source pages with the synthetic index page, the
\* stylesheet and the root index are pairwise distinct paths.
C27_NoPathWrittenTwice ==
    \A i, j \in 1..Len(written) : written[i].path = written[j].path => i = j

(***************************************************************************)
(* Claim about rule 5, the collapsible sections                            *)
(***************************************************************************)

\* C25: after the transform no div carries the toggle class, and every
\* details container made of one starts with a summary element whose
\* content is not empty: the text of the nested collapsed summary, or the
\* placeholder "Summary not available" where there is none.
C25_DetailsStartWithFilledSummary ==
    updated =>
        /\ Find(page, ByTagClass("div", "toggle")) = <<>>
        /\ \A k \in 1..Len(Find(page, ByTag("details"))) :
              LET d == Find(page, ByTag("details"))[k]
              IN  /\ "toggle" \notin d.cls
                  /\ d.kids # <<>>
                  /\ d.kids[1].tag = "summary"
                  /\ d.kids[1].kids # <<>>

(***************************************************************************)
(* Further claims about the index and the links                            *)
(***************************************************************************)

\* C28: every row the index builder emits has a label that is not empty,
\* whatever the sorted full set: also when two identifiers differ in the
\* case of letters only, or have the same number of segments.
C28_EveryRowLabelled ==
    indexDone => \A k \in 1..Len(indexRows) : indexRows[k].label # <<>>

\* a path with each run of slashes taken as one slash
RECURSIVE CollapseSlashes(_)
CollapseSlashes(s) ==
    IF Len(s) < 2 THEN s
    ELSE IF s[1] = "/" /\ s[2] = "/" THEN CollapseSlashes(Tail(s))
    ELSE <<s[1]>> \o CollapseSlashes(Tail(s))

\* a link, taken from the root of the site, lands on a file the run wrote:
\* the file itself, or the index.html of the directory it names
LandsOnWritten(h) ==
    \E i \in 1..Len(written) :
        \/ written[i].path = CollapseSlashes(h)
        \/ written[i].path = PathJoin(<<StripTrailingSlashes(CollapseSlashes(h)), sIndex>>)

\* the run has ended without an error
CleanlyCompleted == runErr = "nil"

\* C29: in a cleanly completed run a rewritten link lands on a page the run
\* wrote: the href /pkg/{identifier}, with or without a closing slash, of a
\* package of the full set lands on that package's page, and the href
\* /src/{identifier}/{file} of a listed source file lands on
\* src/{identifier}/{file}.html.
C29_RewrittenLinksLand ==
    CleanlyCompleted =>
        /\ \A k \in 1..Len(pkgs) :
              /\ LandsOnWritten(RewriteHref(sPkgUrl \o pkgs[k], <<>>))
              /\ LandsOnWritten(RewriteHref(PkgUrl(pkgs[k]), <<>>))
        /\ \A k \in 1..Len(filterPkgs) :
              listed[k].ok =>
                 \A f \in NamesOf(listed[k].lines) :
                    RewriteHref(SrcUrl(filterPkgs[k], f), <<>>)
                       \in {written[i].path : i \in 1..Len(written)}

(***************************************************************************)
(* Termination                                                             *)
(***************************************************************************)
\* the steps of the goroutine of run and main, and those of the worker,
\* that wait for nothing outside the program
CallerStep ==
    \/ Setup \/ StartBackend \/ SpawnWorker \/ RecvDone \/ SelectTimeout
    \/ MkdirSrc \/ ListSources \/ SrcGet \/ MkdirLib \/ StyleGet
    \/ WriteIndex \/ MainExit

WorkerStep == WorkerLoop \/ WorkerGet

\* The run with a scheduler that lets each goroutine take the step it can
\* take, a timer that fires, external commands that return, and a backend
\* that, asked again and again, answers in the end.  The last three
\* conditions are the weak fairness of Resolve and the strong fairness of
\* WorkerPage and SrcPage, written with the guard of the action where
\* ENABLED stands in WF and SF
AnsweringSpec ==
    /\ Spec
    /\ WF_vars(CallerStep)
    /\ WF_vars(WorkerStep)
    /\ WF_vars(TimeoutFires)
    /\ SF_vars(StyleBody)
    /\ (<>[](pc = "resolve" /\ ~exited) => []<><<Resolve>>_vars)
    /\ ([]<>(wpc = "wait" /\ ~exited) => []<><<WorkerPage>>_vars)
    /\ ([]<>(pc = "srcwait" /\ ~exited) => []<><<SrcPage>>_vars)

\* C30: when the backend answers in the end and the listing commands
\* return, the run terminates: the program exits, with success or with an
\* error.
C30_RunTerminates == <>exited

\* part_001 has ended with success after the backend was restarted for the
\* root of a package and gave an answer without the scan marker
C30_Witness ==
    /\ variant = "part_001"
    /\ exited /\ exitCode = 0 /\ runErr = "nil"
    /\ godocStartDir # <<>>
    /\ scanLeft = 0
    /\ wpc = "stopped"
====
